---- MODULE Spec2Model ----
(***************************************************************************)
(* ShutdownAwareTransformStream: a TransformStream whose Transformer is    *)
(* told when the stream has shut down, through a close() callback and an   *)
(* AbortSignal on the controller.                                          *)
(*                                                                         *)
(* The model follows the documented revision of the stream and its adapter *)
(* (the one with #closeTransformerIfNotAlreadyClosed) and the monitor      *)
(* ShutdownMonitorWritableStream it is wired to.  The WritableStream,      *)
(* ReadableStream, TransformStream, Promise and AbortSignal behaviour the  *)
(* code builds on is modelled from the way the code uses it: every         *)
(* synchronous run of code is one step, every promise reaction a later     *)
(* step, scheduled in any order that respects causality.                   *)
(***************************************************************************)
EXTENDS Integers, Sequences, FiniteSets, TLC

VARIABLES
  cfg,     \* the Transformer and the strategies given to the constructor
  pc,      \* "new" | "live" | "failed": constructor not run, succeeded, threw;
           \* "newBase" | "base": the same for a plain TransformStream;
           \* "monitor": a ShutdownMonitorWritableStream on its own and
           \* a plain TransformStream to pipe it to
  mon,     \* #monitor: the ShutdownMonitorWritableStream (the writable side)
  dst,     \* #transformStream.writable, written through #monitoredWriter
  ts,      \* #transformStream: backpressure and its sink algorithms' promises
  rd,      \* #transformStream.readable and the consumer's reader
  sig,     \* #abortController and its signal's listeners
  ad,      \* #transformer: the ShutdownAwareTransformerAdapter
  usr,     \* what the producer and the consumer have called so far
  events   \* the Transformer callbacks invoked, in order

vars == <<cfg, pc, mon, dst, ts, rd, sig, ad, usr, events>>

\* Bounds of the model.
MaxWrites == 2
MaxPendingReads == 1
\* A pipeline: the largest capacity of a side, the reads the consumer makes,
\* and the source pulls that allows for (one more than a full pipeline).
MaxCapacity == 2
MaxPipeReads == 2
MaxPulls == 2 + 2 * MaxCapacity + MaxPipeReads
\* The calls of the monitor's pipeTo().
MaxPipeTo == 2

\* Failure reasons.  E: thrown by the Transformer; Ra: given to abort();
\* Rc: given to cancel(); TypeError: the platform's misuse error;
\* Terminated: the TypeError of controller.terminate(); Assert: a failed
\* assert(); Undef: the undefined stored error of a readable that is closed;
\* Rd: given to the destination's controller.error(); Locked: the TypeError
\* of getWriter() on a locked stream; AlreadyPiped: the TypeError of a
\* second pipeTo(); F: thrown by the destination's abort handler.
Errors == {"E", "Ra", "Rc", "TypeError", "Terminated", "Assert", "Undef",
           "Rd", "Locked", "AlreadyPiped", "F"}

\* A promise is "none" (not created), "pending", "ok", or the reason it
\* rejected with.
IsSettled(p) == p \notin {"none", "pending"}
IsRejected(p) == p \in Errors

\* Chunk values: written chunk i is i; transform() enqueues `${chunk}`.
Stringified(c) == c + 10
StartChunk == 100
FlushChunk == 200
CloseSentinel == 0

StartKinds == {"none", "enqueue", "throw", "reject"}
TransformKinds == {"none", "enqueue", "throw", "error"}
FlushKinds == {"none", "enqueue", "throw", "error",
               "asyncOk", "asyncReject", "asyncError"}
Failing == {"throw", "reject", "error", "asyncReject", "asyncError"}

----------------------------------------------------------------------------
\* The state as one record, so that one synchronous run of code is a
\* composition of functions on it.  exc holds an exception in flight.

State == [cfg |-> cfg, pc |-> pc, mon |-> mon, dst |-> dst, ts |-> ts,
          rd |-> rd, sig |-> sig, ad |-> ad, usr |-> usr, events |-> events,
          exc |-> "none"]

Becomes(t) ==
  /\ cfg' = t.cfg /\ pc' = t.pc /\ mon' = t.mon /\ dst' = t.dst
  /\ ts' = t.ts /\ rd' = t.rd /\ sig' = t.sig /\ ad' = t.ad
  /\ usr' = t.usr /\ events' = t.events

\* The one element of a set: The({F(x) : x \in {v}}) is F(v), with v
\* evaluated once.
The(S) == CHOOSE x \in S : TRUE

Log(s, e) == [s EXCEPT !.events = Append(@, e)]
Throw(s, e) == [s EXCEPT !.exc = e]
Caught(s) == [s EXCEPT !.exc = "none"]

----------------------------------------------------------------------------
\* WritableStream (both the monitor, k = "mon", and the transform stream's
\* writable side, k = "dst").

NewWritableStream ==
  [state |-> "writable", err |-> "none", started |-> FALSE, queue |-> <<>>,
   hwm |-> 1, op |-> "none", chunk |-> 0,
   pa |-> FALSE, paReason |-> "none", paWas |-> FALSE,
   closedP |-> "pending",
   wP |-> [i \in 1..MaxWrites |-> "none"], cP |-> "none", aP |-> "none",
   \* the monitor's own fields: #monitoredWriter is defined; start() has
   \* attached its catch to #monitoredWriter.closed; that catch has run
   monitoredWriter |-> FALSE, catchReg |-> FALSE, catchDone |-> FALSE,
   sinkP |-> "none",
   \* the destination #monitoredWriter writes to: "A", the transform
   \* stream's writable side, or "B", some other WritableStream
   dest |-> "none",
   \* the promise the sink returned has settled the stream's own promise
   \* for the operation in flight; the catch on #monitoredWriter.closed was
   \* already due when it did
   adopted |-> FALSE, behind |-> FALSE]

RECURSIVE SinkWrite(_, _, _), SinkClose(_, _), SinkAbort(_, _, _)

CloseQueuedOrInFlight(w) == w.cP = "pending"

\* The chunk of a write in flight stays in the queue until the write ends.
WritableStreamDefaultControllerGetDesiredSize(w) == w.hwm - Len(w.queue)

WritableStreamRejectCloseAndClosedPromiseIfNeeded(s, k) ==
  LET w == s[k] IN
  [s EXCEPT ![k].cP = IF w.cP = "pending" THEN w.err ELSE @,
            ![k].closedP = IF w.closedP = "pending" THEN w.err ELSE @]

WritableStreamFinishErroring(s, k) ==
  LET w == s[k]
      s1 == [s EXCEPT ![k].state = "errored", ![k].queue = <<>>,
                      ![k].wP = [i \in DOMAIN w.wP |->
                                   IF w.wP[i] = "pending" THEN w.err
                                   ELSE w.wP[i]],
                      ![k].pa = FALSE]
  IN IF ~w.pa THEN WritableStreamRejectCloseAndClosedPromiseIfNeeded(s1, k)
     ELSE IF w.paWas
       THEN WritableStreamRejectCloseAndClosedPromiseIfNeeded(
              [s1 EXCEPT ![k].aP = w.err], k)
       ELSE SinkAbort([s1 EXCEPT ![k].op = "abort"], k, w.paReason)

WritableStreamStartErroring(s, k, reason) ==
  LET s1 == [s EXCEPT ![k].state = "erroring", ![k].err = reason]
  IN IF s1[k].op = "none" /\ s1[k].started
       THEN WritableStreamFinishErroring(s1, k) ELSE s1

WritableStreamDealWithRejection(s, k, e) ==
  IF s[k].state = "writable" THEN WritableStreamStartErroring(s, k, e)
  ELSE WritableStreamFinishErroring(s, k)

\* controller.error(e), and WritableStreamDefaultControllerErrorIfNeeded.
WritableStreamDefaultControllerError(s, k, e) ==
  IF s[k].state = "writable" THEN WritableStreamStartErroring(s, k, e) ELSE s

WritableStreamAdvanceQueueIfNeeded(s, k) ==
  LET w == s[k] IN
  IF ~w.started \/ w.op # "none" \/ w.state \in {"closed", "errored"} THEN s
  ELSE IF w.state = "erroring" THEN WritableStreamFinishErroring(s, k)
  ELSE IF w.queue = <<>> THEN s
  ELSE IF Head(w.queue) = CloseSentinel
    THEN SinkClose([s EXCEPT ![k].op = "close", ![k].queue = Tail(@)], k)
    ELSE SinkWrite([s EXCEPT ![k].op = "write", ![k].chunk = Head(w.queue)],
                   k, Head(w.queue))

\* writer.write(c): the promise it returns is wP[c].
WritableStreamDefaultWriterWrite(s, k, c) ==
  LET w == s[k] IN
  IF w.state = "errored" THEN [s EXCEPT ![k].wP[c] = w.err]
  ELSE IF CloseQueuedOrInFlight(w) \/ w.state = "closed"
    THEN [s EXCEPT ![k].wP[c] = "TypeError"]
  ELSE IF w.state = "erroring" THEN [s EXCEPT ![k].wP[c] = w.err]
  ELSE WritableStreamAdvanceQueueIfNeeded(
         [s EXCEPT ![k].wP[c] = "pending", ![k].queue = Append(@, c)], k)

\* writer.close(): the promise it returns is cP.
WritableStreamDefaultWriterClose(s, k) ==
  LET w == s[k] IN
  IF CloseQueuedOrInFlight(w) \/ w.state \in {"closed", "errored"}
    THEN [s EXCEPT ![k].cP = IF w.cP = "none" THEN "TypeError" ELSE @]
  ELSE WritableStreamAdvanceQueueIfNeeded(
         [s EXCEPT ![k].cP = "pending",
                   ![k].queue = Append(@, CloseSentinel)], k)

\* writer.abort(reason): the promise it returns is aP.
WritableStreamAbort(s, k, reason) ==
  LET w == s[k] IN
  IF w.state \in {"closed", "errored"}
    THEN [s EXCEPT ![k].aP = IF w.aP = "none" THEN "ok" ELSE @]
  ELSE IF w.pa THEN s
  ELSE LET was == w.state = "erroring"
           s1 == [s EXCEPT ![k].pa = TRUE, ![k].paWas = was,
                           ![k].paReason = IF was THEN "none" ELSE reason,
                           ![k].aP = "pending"]
       IN IF was THEN s1 ELSE WritableStreamStartErroring(s1, k, reason)

\* The reactions to the sink's promise p for the operation in flight.
WritableStreamFinishInFlight(s, k, p) ==
  LET w == s[k] IN
  CASE w.op = "write" /\ p = "ok" ->
         WritableStreamAdvanceQueueIfNeeded(
           [s EXCEPT ![k].wP[w.chunk] = "ok", ![k].op = "none",
                     ![k].queue = Tail(@)], k)
    [] w.op = "write" /\ p # "ok" ->
         WritableStreamDealWithRejection(
           [s EXCEPT ![k].wP[w.chunk] = p, ![k].op = "none"], k, p)
    [] w.op = "close" /\ p = "ok" ->
         [s EXCEPT ![k].cP = "ok", ![k].op = "none", ![k].state = "closed",
                   ![k].err = "none", ![k].pa = FALSE,
                   ![k].aP = IF w.pa THEN "ok" ELSE @,
                   ![k].closedP = "ok"]
    [] w.op = "close" /\ p # "ok" ->
         WritableStreamDealWithRejection(
           [s EXCEPT ![k].cP = p, ![k].op = "none", ![k].pa = FALSE,
                     ![k].aP = IF w.pa THEN p ELSE @], k, p)
    [] w.op = "abort" ->
         WritableStreamRejectCloseAndClosedPromiseIfNeeded(
           [s EXCEPT ![k].aP = p, ![k].op = "none"], k)

\* The start promise's reactions.
WritableStreamStarted(s, k, p) ==
  LET s1 == [s EXCEPT ![k].started = TRUE] IN
  IF p = "ok" THEN WritableStreamAdvanceQueueIfNeeded(s1, k)
  ELSE WritableStreamDealWithRejection(s1, k, p)

----------------------------------------------------------------------------
\* ReadableStream: the transform stream's readable side.

NewReadableStream(hwm) ==
  [state |-> "readable", err |-> "none", queue |-> <<>>, closeReq |-> FALSE,
   started |-> FALSE, pulling |-> FALSE, pullAgain |-> FALSE,
   pullResolved |-> FALSE, reqs |-> 0, out |-> <<>>, lastRead |-> "none",
   hwm |-> hwm]

NewTransformStream ==
  [backpressure |-> TRUE, startP |-> "ok",
   blocked |-> FALSE, unblocked |-> FALSE, wP |-> "none",
   flush |-> "none", flushErr |-> "none", cP |-> "none", aP |-> "none",
   cleared |-> FALSE, aborts |-> 0]

ReadableStreamDefaultControllerCanCloseOrEnqueue(r) ==
  r.state = "readable" /\ ~r.closeReq

ReadableStreamDefaultControllerGetDesiredSize(r) == r.hwm - Len(r.queue)

ReadableStreamDefaultControllerShouldCallPull(r) ==
  /\ ReadableStreamDefaultControllerCanCloseOrEnqueue(r)
  /\ r.started
  /\ (r.reqs > 0 \/ ReadableStreamDefaultControllerGetDesiredSize(r) > 0)

\* Resolves the current backpressureChangePromise: a write waiting on it
\* and a pull that returned it are unblocked.
TransformStreamSetBackpressure(s, b) ==
  [s EXCEPT !.ts.backpressure = b,
            !.ts.unblocked = IF s.ts.blocked THEN TRUE ELSE @,
            !.rd.pullResolved = IF s.rd.pulling THEN TRUE ELSE @]

TransformStreamDefaultSourcePullAlgorithm(s) ==
  [TransformStreamSetBackpressure(s, FALSE) EXCEPT !.rd.pullResolved = FALSE]

ReadableStreamDefaultControllerCallPullIfNeeded(s) ==
  IF ~ReadableStreamDefaultControllerShouldCallPull(s.rd) THEN s
  ELSE IF s.rd.pulling THEN [s EXCEPT !.rd.pullAgain = TRUE]
  ELSE TransformStreamDefaultSourcePullAlgorithm(
         [s EXCEPT !.rd.pulling = TRUE])

ReadableStreamDefaultControllerEnqueue(s, x) ==
  IF ~ReadableStreamDefaultControllerCanCloseOrEnqueue(s.rd) THEN s
  ELSE ReadableStreamDefaultControllerCallPullIfNeeded(
         IF s.rd.reqs > 0
           THEN [s EXCEPT !.rd.out = Append(@, x), !.rd.reqs = @ - 1,
                          !.rd.lastRead = "chunk"]
           ELSE [s EXCEPT !.rd.queue = Append(@, x)])

ReadableStreamClose(s) ==
  [s EXCEPT !.rd.state = "closed", !.rd.reqs = 0,
            !.rd.lastRead = IF s.rd.reqs > 0 THEN "done" ELSE @]

ReadableStreamDefaultControllerClose(s) ==
  IF ~ReadableStreamDefaultControllerCanCloseOrEnqueue(s.rd) THEN s
  ELSE LET s1 == [s EXCEPT !.rd.closeReq = TRUE]
       IN IF s.rd.queue = <<>> THEN ReadableStreamClose(s1) ELSE s1

ReadableStreamDefaultControllerError(s, e) ==
  IF s.rd.state # "readable" THEN s
  ELSE [s EXCEPT !.rd.state = "errored", !.rd.err = e, !.rd.queue = <<>>,
                 !.rd.reqs = 0,
                 !.rd.lastRead = IF s.rd.reqs > 0 THEN e ELSE @]

\* reader.read()
ReadableStreamDefaultReaderRead(s) ==
  LET r == s.rd IN
  IF r.state = "closed" THEN [s EXCEPT !.rd.lastRead = "done"]
  ELSE IF r.state = "errored" THEN [s EXCEPT !.rd.lastRead = r.err]
  ELSE IF r.queue # <<>>
    THEN LET s1 == [s EXCEPT !.rd.out = Append(@, Head(r.queue)),
                             !.rd.queue = Tail(@), !.rd.lastRead = "chunk"]
         IN IF r.closeReq /\ Len(r.queue) = 1 THEN ReadableStreamClose(s1)
            ELSE ReadableStreamDefaultControllerCallPullIfNeeded(s1)
  ELSE ReadableStreamDefaultControllerCallPullIfNeeded(
         [s EXCEPT !.rd.reqs = @ + 1])

----------------------------------------------------------------------------
\* TransformStream: its controller's operations.

TransformStreamErrorWritableAndUnblockWrite(s, e) ==
  The({ IF s1.ts.backpressure THEN TransformStreamSetBackpressure(s1, FALSE)
        ELSE s1
      : s1 \in {WritableStreamDefaultControllerError(
              [s EXCEPT !.ts.cleared = TRUE], "dst", e)} })

TransformStreamError(s, e) ==
  TransformStreamErrorWritableAndUnblockWrite(
    ReadableStreamDefaultControllerError(s, e), e)

TransformStreamDefaultControllerEnqueue(s, x) ==
  IF ~ReadableStreamDefaultControllerCanCloseOrEnqueue(s.rd)
    THEN Throw(s, "TypeError")
  ELSE The({ LET bp == ~ReadableStreamDefaultControllerShouldCallPull(s1.rd)
             IN IF bp # s1.ts.backpressure
                  THEN TransformStreamSetBackpressure(s1, bp) ELSE s1
           : s1 \in {ReadableStreamDefaultControllerEnqueue(s, x)} })

TransformStreamDefaultControllerTerminate(s) ==
  TransformStreamErrorWritableAndUnblockWrite(
    ReadableStreamDefaultControllerClose(s), "Terminated")

----------------------------------------------------------------------------
\* ShutdownAwareTransformStreamDefaultController: the controller the
\* Transformer's methods receive.

\* Mutant: enqueue() does not pass the chunk on to the wrapped controller.
enqueueDropping(s, chunk) == s

\* Mutant: error() does not pass the reason on to the wrapped controller.
errorWithoutReason(s, reason) == TransformStreamError(s, "Undef")

enqueue(s, chunk) == TransformStreamDefaultControllerEnqueue(s, chunk)
error(s, reason) == TransformStreamError(s, reason)
\* Mutant: terminate() only closes the readable side.
terminateClosingOnly(s) == ReadableStreamDefaultControllerClose(s)

terminate(s) == TransformStreamDefaultControllerTerminate(s)
desiredSize(s) == ReadableStreamDefaultControllerGetDesiredSize(s.rd)

----------------------------------------------------------------------------
\* The Transformer given to the constructor (cfg): what its methods do.

\* transformer.close(): it reads controller.signal to tell why it runs.
TransformerClose(s, nargs) ==
  Log([s EXCEPT !.usr.closeCount = @ + 1,
                !.usr.closeArgs = nargs,
                !.usr.closeSawAborted = s.sig.aborted,
                !.usr.closeSawReason = s.sig.reason], "close")

\* The abort listener start() added to controller.signal.
TransformerAbortListener(s) ==
  Log([s EXCEPT !.usr.listenerCount = @ + 1,
                !.usr.listenerSawAborted = s.sig.aborted,
                !.usr.listenerSawReason = s.sig.reason], "listener")

\* The abort listener the Transformer added to controller.signal later on.
TransformerAddedListener(s) ==
  [s EXCEPT !.usr.addedCount = @ + 1, !.usr.addedSawReason = s.sig.reason]

\* The controller a method of the Transformer is called with: #controller
\* of the adapter, whose signal is the adapter's #signal; for a plain
\* TransformStream its own controller, which has no signal.
Controller(s) == [made |-> s.ad.made, signal |-> s.ad.signal]

Called(s, method) ==
  Log([s EXCEPT !.usr.controllers = @ \cup {Controller(s)}], method)

\* transformer.start(controller): a rejected promise is left in ts.startP.
TransformerStart(s) ==
  LET s1 == Called([s EXCEPT !.sig.listener = s.cfg.listen], "start") IN
  CASE s.cfg.start = "enqueue" -> enqueue(s1, StartChunk)
    [] s.cfg.start = "throw" -> Throw(s1, "E")
    [] s.cfg.start = "reject" -> [s1 EXCEPT !.ts.startP = "E"]
    [] s.cfg.start = "terminate" -> terminate(s1)

\* transformer.transform(chunk, controller)
TransformerTransform(s, chunk) ==
  LET s1 == Called(s, "transform") IN
  CASE s.cfg.transform = "none" -> Throw(s, "TypeError")
    [] s.cfg.transform = "enqueue" -> enqueue(s1, Stringified(chunk))
    [] s.cfg.transform = "identity" -> enqueue(s1, chunk)
    [] s.cfg.transform = "throw" -> Throw(s1, "E")
    [] s.cfg.transform = "error" -> error(s1, "E")
    [] s.cfg.transform = "terminate" -> terminate(s1)

IsAsyncFlush(kind) == kind \in {"asyncOk", "asyncReject", "asyncError"}

\* transformer.flush(controller), up to its return or its first await.
TransformerFlush(s) ==
  LET s1 == Called(s, "flush") IN
  CASE s.cfg.flush = "enqueue" -> Log(enqueue(s1, FlushChunk), "flushed")
    [] s.cfg.flush = "throw" -> Log(Throw(s1, "E"), "flushed")
    [] s.cfg.flush = "error" -> Log(error(s1, "E"), "flushed")
    [] IsAsyncFlush(s.cfg.flush) -> s1

----------------------------------------------------------------------------
\* ShutdownAwareTransformerAdapter

\* Mutant: the closeCalled guard is missing.
closeTransformerWithoutGuard(s) ==
  IF s.cfg.hasClose
    THEN TransformerClose([s EXCEPT !.ad.closeCalled = TRUE], 0)
  ELSE s

closeTransformerIfNotAlreadyClosed(s) ==
  IF ~s.ad.closeCalled
    THEN LET s1 == [s EXCEPT !.ad.closeCalled = TRUE]
         IN IF s.cfg.hasClose THEN TransformerClose(s1, 0) ELSE s1
  ELSE s

\* assert(_controller === this.#wrappedController); assert(this.#controller)
AdapterAssertions(s) == s.ad.wrappedController /\ s.ad.controller

\* Mutant: the constructor adds no abort listener to the signal.
AdapterConstructorWithoutListener(s) ==
  [s EXCEPT !.ad.signal = "abortController",
            !.ad.hasTransform = s.cfg.transform # "none"]

\* Mutant: transform() is defined whether or not the Transformer has one.
AdapterConstructorAlwaysTransform(s) ==
  [s EXCEPT !.ad.signal = "abortController",
            !.sig.adapterListener = TRUE, !.ad.hasTransform = TRUE]

\* The constructor: the abort listener, and transform() only when the
\* Transformer has one.
AdapterConstructor(s) ==
  [s EXCEPT !.ad.signal = "abortController",
            !.sig.adapterListener = TRUE,
            !.ad.hasTransform = s.cfg.transform # "none"]

\* Mutant: an exception thrown by start() is caught and returned as a
\* rejected promise.
AdapterStartCatching(s) ==
  LET s1 == [s EXCEPT !.ad.wrappedController = TRUE,
                      !.ad.controller = TRUE, !.ad.made = @ + 1]
  IN The({ IF s2.exc # "none" THEN [Caught(s2) EXCEPT !.ts.startP = s2.exc]
           ELSE s2
         : s2 \in {IF s.cfg.start # "none" THEN TransformerStart(s1) ELSE s1} })

\* Mutant: start() does not record the controller it is given.
AdapterStartNotRecording(s) ==
  LET s1 == [s EXCEPT !.ad.controller = TRUE, !.ad.made = @ + 1]
  IN IF s.cfg.start # "none" THEN TransformerStart(s1) ELSE s1

AdapterStart(s) ==
  LET s1 == [s EXCEPT !.ad.wrappedController = TRUE,
                      !.ad.controller = TRUE, !.ad.made = @ + 1]
  IN IF s.cfg.start # "none" THEN TransformerStart(s1) ELSE s1

\* Mutant: transform() wraps the controller it is given anew on each call.
AdapterTransformWrappingAgain(s, chunk) ==
  IF ~AdapterAssertions(s) THEN Throw(s, "Assert")
  ELSE TransformerTransform([s EXCEPT !.ad.made = @ + 1], chunk)

AdapterTransform(s, chunk) ==
  IF ~AdapterAssertions(s) THEN Throw(s, "Assert")
  ELSE TransformerTransform(s, chunk)

\* Mutant: close() is called before the Transformer's flush().
AdapterFlushClosingFirst(s) ==
  IF ~AdapterAssertions(s) THEN Throw(s, "Assert")
  ELSE The({ IF s1.exc # "none" THEN s1
             ELSE [s1 EXCEPT !.ts.flush =
                     IF IsAsyncFlush(s.cfg.flush) THEN "user" ELSE "then"]
           : s1 \in {IF s.cfg.flush = "none"
                        THEN closeTransformerIfNotAlreadyClosed(s)
                      ELSE TransformerFlush(
                             closeTransformerIfNotAlreadyClosed(s))} })

\* Mutant: close() is called when flush() returns, not when the promise
\* it returned settles.
AdapterFlushNotAwaiting(s) ==
  IF ~AdapterAssertions(s) THEN Throw(s, "Assert")
  ELSE IF s.cfg.flush = "none" THEN [s EXCEPT !.ts.flush = "then"]
  ELSE The({ IF s1.exc # "none" THEN s1
             ELSE [closeTransformerIfNotAlreadyClosed(s1) EXCEPT !.ts.flush =
                     IF IsAsyncFlush(s.cfg.flush) THEN "user" ELSE "then"]
           : s1 \in {TransformerFlush(s)} })

\* Mutant: close() is called in a finally, also when flush() throws.
AdapterFlushFinally(s) ==
  IF ~AdapterAssertions(s) THEN Throw(s, "Assert")
  ELSE IF s.cfg.flush = "none" THEN [s EXCEPT !.ts.flush = "then"]
  ELSE The({ IF s1.exc # "none" THEN closeTransformerIfNotAlreadyClosed(s1)
             ELSE [s1 EXCEPT !.ts.flush =
                     IF IsAsyncFlush(s.cfg.flush) THEN "user" ELSE "then"]
           : s1 \in {TransformerFlush(s)} })

\* flush(): ts.flush is "user" while the Transformer's flush() is pending,
\* "then" once Promise.resolve(...) is fulfilled and the then() reaction
\* is due.
AdapterFlush(s) ==
  IF ~AdapterAssertions(s) THEN Throw(s, "Assert")
  ELSE IF s.cfg.flush = "none" THEN [s EXCEPT !.ts.flush = "then"]
  ELSE The({ IF s1.exc # "none" THEN s1
             ELSE [s1 EXCEPT !.ts.flush =
                     IF IsAsyncFlush(s.cfg.flush) THEN "user" ELSE "then"]
           : s1 \in {TransformerFlush(s)} })

----------------------------------------------------------------------------
\* TransformStream: the algorithms of its writable side's sink.

\* transformAlgorithm: the adapter's transform(), or the default one.  A
\* plain TransformStream is given the Transformer itself.
TransformAlgorithm(s, chunk) ==
  IF s.pc \in {"base", "monitor"}
    THEN IF s.cfg.transform # "none" THEN TransformerTransform(s, chunk)
         ELSE TransformStreamDefaultControllerEnqueue(s, chunk)
  ELSE IF s.ad.hasTransform THEN AdapterTransform(s, chunk)
  ELSE TransformStreamDefaultControllerEnqueue(s, chunk)

\* flushAlgorithm: the adapter's flush(); for a plain TransformStream the
\* Transformer's own, whose promise is the flushPromise.
FlushAlgorithm(s) ==
  IF s.pc \notin {"base", "monitor"} THEN AdapterFlush(s)
  ELSE IF s.cfg.flush = "none" THEN [s EXCEPT !.ts.flush = "ok"]
  ELSE The({ IF s1.exc # "none" THEN s1
             ELSE [s1 EXCEPT !.ts.flush =
                     IF IsAsyncFlush(s.cfg.flush) THEN "user" ELSE "ok"]
           : s1 \in {TransformerFlush(s)} })

TransformStreamDefaultControllerPerformTransform(s, chunk) ==
  The({ IF r.exc # "none"
          THEN [TransformStreamError(Caught(r), r.exc)
                  EXCEPT !.ts.wP = r.exc]
        ELSE [r EXCEPT !.ts.wP = "ok"]
      : r \in {TransformAlgorithm(s, chunk)} })

TransformStreamDefaultSinkWriteAlgorithm(s, chunk) ==
  IF s.ts.backpressure
    THEN [s EXCEPT !.ts.blocked = TRUE, !.ts.unblocked = FALSE,
                   !.ts.wP = "pending"]
  ELSE TransformStreamDefaultControllerPerformTransform(s, chunk)

\* The write resumes after backpressureChangePromise.
TransformStreamDefaultSinkWriteResume(s) ==
  LET s1 == [s EXCEPT !.ts.blocked = FALSE, !.ts.unblocked = FALSE]
  IN IF s.dst.state = "erroring" THEN [s1 EXCEPT !.ts.wP = s.dst.err]
     ELSE TransformStreamDefaultControllerPerformTransform(s1, s.dst.chunk)

TransformStreamDefaultSinkCloseAlgorithm(s) ==
  The({ LET r1 == [Caught(r) EXCEPT !.ts.cleared = TRUE,
                                    !.ts.cP = "pending"]
        IN IF r.exc # "none"
             THEN [r1 EXCEPT !.ts.flush = "rej", !.ts.flushErr = r.exc]
           ELSE r1
      : r \in {FlushAlgorithm(s)} })

\* The reactions to flushPromise.
TransformStreamDefaultSinkCloseSettled(s) ==
  LET s0 == [s EXCEPT !.ts.flush = "done"] IN
  IF s.ts.flush = "ok"
    THEN IF s.rd.state = "errored" THEN [s0 EXCEPT !.ts.cP = s.rd.err]
         ELSE [ReadableStreamDefaultControllerClose(s0) EXCEPT !.ts.cP = "ok"]
  ELSE The({ [s1 EXCEPT !.ts.cP = IF s1.rd.state = "errored" THEN s1.rd.err
             ELSE "Undef"]
           : s1 \in {TransformStreamError(s0, s.ts.flushErr)} })

TransformStreamDefaultSinkAbortAlgorithm(s, reason) ==
  [TransformStreamError(s, reason) EXCEPT !.ts.aP = "ok",
                                          !.ts.aborts = @ + 1]

\* readable.cancel(reason)
ReadableStreamCancel(s, reason) ==
  IF s.rd.state = "closed" THEN [s EXCEPT !.usr.cancelP = "ok"]
  ELSE IF s.rd.state = "errored" THEN [s EXCEPT !.usr.cancelP = s.rd.err]
  ELSE LET s1 == [ReadableStreamClose(s) EXCEPT !.rd.queue = <<>>]
       IN [TransformStreamErrorWritableAndUnblockWrite(s1, reason)
             EXCEPT !.usr.cancelP = "ok"]

----------------------------------------------------------------------------
\* ShutdownMonitorWritableStream: its sink.

\* Mutant: write() does not return the monitored writer's promise.
MonitorSinkWriteNotReturning(s, chunk) ==
  IF ~s.mon.monitoredWriter THEN [s EXCEPT !.mon.sinkP = "Assert"]
  ELSE [WritableStreamDefaultWriterWrite(s, "dst", chunk)
          EXCEPT !.mon.sinkP = "ok"]

MonitorSinkWrite(s, chunk) ==
  IF ~s.mon.monitoredWriter THEN [s EXCEPT !.mon.sinkP = "Assert"]
  ELSE WritableStreamDefaultWriterWrite(s, "dst", chunk)

MonitorSinkClose(s) ==
  IF ~s.mon.monitoredWriter THEN [s EXCEPT !.mon.sinkP = "Assert"]
  ELSE WritableStreamDefaultWriterClose(s, "dst")

\* Mutant: the reason is not passed on to the monitored writer.
MonitorSinkAbortWithoutReason(s, reason) ==
  IF ~s.mon.monitoredWriter THEN [s EXCEPT !.mon.sinkP = "Assert"]
  ELSE WritableStreamAbort(s, "dst", "Undef")

\* Mutant: abort() does nothing with the monitored writer.
MonitorSinkAbortNotForwarding(s, reason) ==
  IF ~s.mon.monitoredWriter THEN [s EXCEPT !.mon.sinkP = "Assert"]
  ELSE [s EXCEPT !.mon.sinkP = "ok"]

\* Mutant: abort() does not return the monitored writer's promise.
MonitorSinkAbortNotReturning(s, reason) ==
  IF ~s.mon.monitoredWriter THEN [s EXCEPT !.mon.sinkP = "Assert"]
  ELSE [WritableStreamAbort(s, "dst", reason) EXCEPT !.mon.sinkP = "ok"]

\* Mutant: abort() closes the monitored writer.
MonitorSinkAbortClosing(s, reason) ==
  IF ~s.mon.monitoredWriter THEN [s EXCEPT !.mon.sinkP = "Assert"]
  ELSE WritableStreamDefaultWriterClose(s, "dst")

MonitorSinkAbort(s, reason) ==
  IF ~s.mon.monitoredWriter THEN [s EXCEPT !.mon.sinkP = "Assert"]
  ELSE WritableStreamAbort(s, "dst", reason)

\* Mutant: start() does not watch the monitored writer's closed promise.
MonitorSinkStartWithoutCatch(s) ==
  IF ~s.mon.monitoredWriter THEN WritableStreamStarted(s, "mon", "Assert")
  ELSE WritableStreamStarted(s, "mon", "ok")

\* start(): after `await monitoredWritable`.
MonitorSinkStart(s) ==
  IF ~s.mon.monitoredWriter THEN WritableStreamStarted(s, "mon", "Assert")
  ELSE WritableStreamStarted([s EXCEPT !.mon.catchReg = TRUE], "mon", "ok")

SinkWrite(s, k, chunk) ==
  IF k = "mon" THEN MonitorSinkWrite(s, chunk)
  ELSE TransformStreamDefaultSinkWriteAlgorithm(s, chunk)

SinkClose(s, k) ==
  IF k = "mon" THEN MonitorSinkClose(s)
  ELSE TransformStreamDefaultSinkCloseAlgorithm(s)

\* The abort handler of the monitor's destination: it is given the reason
\* and shuts the destination down; a failing one then throws F.
DestinationSinkAbort(s, reason) ==
  IF s.cfg.abort = "throw"
    THEN [TransformStreamDefaultSinkAbortAlgorithm(s, reason)
            EXCEPT !.ts.aP = "F"]
  ELSE TransformStreamDefaultSinkAbortAlgorithm(s, reason)

SinkAbort(s, k, reason) ==
  IF k = "mon" THEN MonitorSinkAbort(s, reason)
  ELSE DestinationSinkAbort(s, reason)

\* The promise the sink returned for the operation in flight.
SinkPromise(s, k) ==
  IF k = "mon"
    THEN IF s.mon.sinkP # "none" THEN s.mon.sinkP
         ELSE CASE s.mon.op = "write" -> s.dst.wP[s.mon.chunk]
                [] s.mon.op = "close" -> s.dst.cP
                [] s.mon.op = "abort" -> s.dst.aP
                [] OTHER -> "none"
  ELSE CASE s.dst.op = "write" -> s.ts.wP
         [] s.dst.op = "close" -> s.ts.cP
         [] s.dst.op = "abort" -> s.ts.aP
         [] OTHER -> "none"

SinkSettled(s, k) ==
  LET p == SinkPromise(s, k)
      s0 == IF k = "mon"
              THEN [s EXCEPT !.mon.sinkP = "none", !.mon.adopted = FALSE,
                             !.mon.behind = FALSE]
            ELSE [s EXCEPT !.ts.wP = "none"]
  IN WritableStreamFinishInFlight(s0, k, p)

\* Mutant: a second pipeTo() takes the new destination's writer.
pipeToAgain(s, destination) ==
  IF destination \in s.usr.locks THEN Throw(s, "Locked")
  ELSE [s EXCEPT !.mon.monitoredWriter = TRUE, !.mon.dest = destination,
                 !.usr.locks = @ \cup {destination},
                 !.usr.pipeP = "closed"]

\* Mutant: pipeTo() returns the deferred that binding resolves.
pipeToReturningDeferred(s, destination) ==
  IF s.mon.monitoredWriter THEN Throw(s, "AlreadyPiped")
  ELSE IF destination \in s.usr.locks THEN Throw(s, "Locked")
  ELSE [s EXCEPT !.mon.monitoredWriter = TRUE, !.mon.dest = destination,
                 !.usr.locks = @ \cup {destination},
                 !.usr.pipeP = "ok"]

\* Mutant: a locked destination is reported by a rejected promise.
pipeToRejecting(s, destination) ==
  IF s.mon.monitoredWriter THEN Throw(s, "AlreadyPiped")
  ELSE IF destination \in s.usr.locks THEN [s EXCEPT !.usr.pipeP = "Locked"]
  ELSE [s EXCEPT !.mon.monitoredWriter = TRUE, !.mon.dest = destination,
                 !.usr.locks = @ \cup {destination},
                 !.usr.pipeP = "closed"]

\* Mutant: pipeTo() records its destination before it takes the writer.
pipeToRecordingFirst(s, destination) ==
  IF s.mon.monitoredWriter THEN Throw(s, "AlreadyPiped")
  ELSE IF destination \in s.usr.locks
    THEN Throw([s EXCEPT !.mon.dest = destination], "Locked")
  ELSE [s EXCEPT !.mon.monitoredWriter = TRUE, !.mon.dest = destination,
                 !.usr.locks = @ \cup {destination},
                 !.usr.pipeP = "closed"]

\* pipeTo(destination): destination.getWriter() throws when the destination
\* is locked, and locks it otherwise; the promise returned (usr.pipeP) is
\* the writer's closed promise.
pipeTo(s, destination) ==
  IF s.mon.monitoredWriter THEN Throw(s, "AlreadyPiped")
  ELSE IF destination \in s.usr.locks THEN Throw(s, "Locked")
  ELSE [s EXCEPT !.mon.monitoredWriter = TRUE, !.mon.dest = destination,
                 !.usr.locks = @ \cup {destination},
                 !.usr.pipeP = "closed"]

----------------------------------------------------------------------------
\* AbortController

\* abort(reason): the listeners run in the order they were added, the
\* adapter's first.
\* Mutant: the adapter's listener is transformer.close.bind(transformer),
\* which is given the abort event.
AbortControllerAbortBoundClose(s, reason) ==
  IF s.sig.aborted THEN s
  ELSE LET s1 == [s EXCEPT !.sig.aborted = TRUE, !.sig.reason = reason]
       IN The({ IF s2.sig.listener THEN TransformerAbortListener(s2)
                ELSE s2
              : s2 \in {IF s1.sig.adapterListener /\ s1.cfg.hasClose
                      THEN TransformerClose(
                             [s1 EXCEPT !.ad.closeCalled = TRUE], 1)
                      ELSE s1} })

\* Mutant: the adapter's listener was added after the Transformer's.
AbortControllerAbortTransformerFirst(s, reason) ==
  IF s.sig.aborted THEN s
  ELSE LET s1 == [s EXCEPT !.sig.aborted = TRUE, !.sig.reason = reason]
       IN The({ IF s2.sig.adapterListener
                  THEN closeTransformerIfNotAlreadyClosed(s2)
                ELSE s2
              : s2 \in {IF s1.sig.listener
                      THEN TransformerAbortListener(s1) ELSE s1} })

AbortControllerAbort(s, reason) ==
  IF s.sig.aborted THEN s
  ELSE LET s1 == [s EXCEPT !.sig.aborted = TRUE, !.sig.reason = reason]
       IN The({ IF s3.sig.added = "early" THEN TransformerAddedListener(s3)
                ELSE s3
              : s3 \in
                  { IF s2.sig.listener THEN TransformerAbortListener(s2)
                    ELSE s2
                  : s2 \in {IF s1.sig.adapterListener
                            THEN closeTransformerIfNotAlreadyClosed(s1)
                            ELSE s1} } })

----------------------------------------------------------------------------
\* The constructor's arguments the model explores.  start() adds an abort
\* listener to controller.signal whenever the Transformer has a start().

\* At most one of the Transformer's methods fails; the methods that would
\* run after a failing one are the plain enqueueing ones.
Transformers ==
  {t \in [hasClose : {TRUE}, start : StartKinds, transform : TransformKinds,
          flush : FlushKinds] :
     /\ t.start \in Failing =>
          t.transform = "enqueue" /\ t.flush = "enqueue"
     /\ t.transform \in Failing => t.flush = "enqueue"}
  \cup {[hasClose |-> FALSE, start |-> "none", transform |-> "none",
         flush |-> "none"]}

ReadableHighWaterMarks == {0, 1}

Configs ==
  {[hasClose |-> t.hasClose, start |-> t.start, transform |-> t.transform,
    flush |-> t.flush, listen |-> t.start # "none", hwm |-> h, whwm |-> 1,
    abort |-> "none"] :
     t \in Transformers, h \in ReadableHighWaterMarks}

\* added: a further abort listener of the Transformer, added after start()
\* returned: "early" when the signal was not aborted then, "late" when it
\* was.
NewSignal ==
  [aborted |-> FALSE, reason |-> "none", adapterListener |-> FALSE,
   listener |-> FALSE, catchDone |-> FALSE, added |-> "none"]

\* signal: #signal, the AbortSignal the adapter was constructed with;
\* made: the ShutdownAwareTransformStreamDefaultController objects created
\* so far, #controller being the last of them.
NewAdapter ==
  [closeCalled |-> FALSE, wrappedController |-> FALSE,
   controller |-> FALSE, hasTransform |-> FALSE,
   signal |-> "none", made |-> 0]

\* What the producer and the consumer have done, and what close() and the
\* abort listener saw.  When a source is piped into the stream (piping):
\* the chunks in the source's queue and the times its pull() was called.
NewUser ==
  [written |-> 0, closed |-> FALSE, aborted |-> FALSE,
   cancelled |-> FALSE, cancelP |-> "none", endedFirst |-> FALSE,
   closeCount |-> 0, closeArgs |-> 0, closeSawAborted |-> FALSE,
   closeSawReason |-> "none", listenerCount |-> 0,
   listenerSawAborted |-> FALSE, listenerSawReason |-> "none",
   addedCount |-> 0, addedSawReason |-> "none",
   \* the controllers start(), transform() and flush() were called with
   controllers |-> {},
   piping |-> FALSE, srcQueue |-> 0, pulls |-> 0,
   \* the streams whose writer has been taken; the promise pipeTo()
   \* returned; the calls of pipeTo() and what the last one threw; the
   \* destination's controller.error() was called
   locks |-> {}, pipeP |-> "none", pipeCalls |-> 0, pipeThrew |-> "none",
   destErrored |-> FALSE,
   \* what had been done when pipeTo() bound the destination
   before |-> [written |-> 0, closed |-> FALSE, aborted |-> FALSE,
               destErrored |-> FALSE]]

Init ==
  /\ cfg \in Configs
  /\ pc = "new"
  /\ mon = NewWritableStream
  /\ dst = NewWritableStream
  /\ ts = NewTransformStream
  /\ rd = NewReadableStream(cfg.hwm)
  /\ sig = NewSignal
  /\ ad = NewAdapter
  /\ usr = NewUser
  /\ events = <<>>

\* Mutant: the monitor is not given the writable side's strategy.
MonitorConstructorWithoutStrategy(s) == s

\* new ShutdownMonitorWritableStream({queuingStrategy: writableStrategy})
MonitorConstructor(s) == [s EXCEPT !.mon.hwm = s.cfg.whwm]

\* new ShutdownAwareTransformStream(options)
Construct ==
  /\ pc = "new"
  /\ Becomes(The({ IF s1.exc # "none" THEN [Caught(s1) EXCEPT !.pc = "failed"]
                   ELSE [pipeTo(s1, "A") EXCEPT !.pc = "live"]
                 : s1 \in {AdapterStart(AdapterConstructor(
                             MonitorConstructor(State)))} }))

\* The producer: tx.writable.getWriter() write(), close(), abort().  It
\* writes before it closes, and leaves a writable side that has shut down
\* alone (there every call is rejected or ignored without any effect).
\* usr.endedFirst records that abort() or cancel() came before close().
WritableLive == mon.state \in {"writable", "erroring"}

\* The writable side the producer holds: the monitor, or the plain
\* TransformStream's own.
Writable == IF pc = "base" THEN dst ELSE mon

Write ==
  /\ pc \in {"live", "monitor"}
  /\ usr.written < MaxWrites
  /\ ~usr.closed
  /\ WritableLive
  /\ Becomes(WritableStreamDefaultWriterWrite(
               [State EXCEPT !.usr.written = @ + 1], "mon", usr.written + 1))

Close ==
  /\ pc \in {"live", "monitor"}
  /\ ~usr.closed
  /\ WritableLive
  /\ Becomes(WritableStreamDefaultWriterClose(
               [State EXCEPT !.usr.closed = TRUE], "mon"))

Abort ==
  /\ pc \in {"live", "monitor"}
  /\ ~usr.aborted
  /\ WritableLive
  /\ Becomes(WritableStreamAbort(
               [State EXCEPT !.usr.aborted = TRUE,
                             !.usr.endedFirst = @ \/ ~usr.closed],
               "mon", "Ra"))

\* The consumer: tx.readable.getReader() read(), cancel().  It reads
\* until a read reports the end or an error, and cancels a readable side
\* that has not shut down.
Read ==
  /\ pc \in {"live", "base", "monitor"}
  /\ rd.reqs < MaxPendingReads
  /\ rd.lastRead \in {"none", "chunk"}
  /\ Becomes(ReadableStreamDefaultReaderRead(State))

Cancel ==
  /\ pc = "live"
  /\ ~usr.cancelled
  /\ rd.state = "readable"
  /\ Becomes(ReadableStreamCancel(
               [State EXCEPT !.usr.cancelled = TRUE,
                             !.usr.endedFirst = @ \/ ~usr.closed], "Rc"))

\* The Transformer's asynchronous flush() runs to its end.
FlushSettlesDue == ts.flush = "user"

FlushSettles ==
  /\ FlushSettlesDue
  /\ LET s1 == Log(State, "flushed")
         fulfilled == IF pc \in {"base", "monitor"} THEN "ok" ELSE "then"
     IN
     Becomes(CASE cfg.flush = "asyncOk" -> [s1 EXCEPT !.ts.flush = fulfilled]
               [] cfg.flush = "asyncReject" ->
                    [s1 EXCEPT !.ts.flush = "rej", !.ts.flushErr = "E"]
               [] cfg.flush = "asyncError" ->
                    [error(s1, "E") EXCEPT !.ts.flush = fulfilled])

\* The promise reactions: each has the condition under which it is due.

\* Mutant: start() does not wait for monitoredWritable.
MonitorStartWithoutWaiting == pc \in {"live", "monitor"} /\ ~mon.started

\* The monitor's start() resumes: monitoredWritable was resolved by pipeTo.
\* Mutant: pipeTo() does not resolve the deferred that start() awaits.
MonitorStartDeferredNeverResolved ==
  mon.monitoredWriter /\ ~mon.started /\ mon.dest = "none"

MonitorStartDue == mon.monitoredWriter /\ ~mon.started

MonitorStart ==
  /\ MonitorStartDue
  /\ Becomes(MonitorSinkStart(State))

\* The transform stream's startPromise settles: the writable side's
\* reaction, then the readable side's.
TransformStreamStartDue ==
  pc \in {"live", "base", "monitor"} /\ ~dst.started

TransformStreamStart ==
  /\ TransformStreamStartDue
  /\ Becomes(The({ IF ts.startP = "ok"
                     THEN ReadableStreamDefaultControllerCallPullIfNeeded(
                            [s1 EXCEPT !.rd.started = TRUE])
                   ELSE ReadableStreamDefaultControllerError(s1, ts.startP)
                 : s1 \in {WritableStreamStarted(State, "dst", ts.startP)} }))

\* The monitor's sink returns the monitored writer's own promise: the
\* stream resolves a promise of its own with it, and reacts to that one.
\* The settlement reaches the stream's promise one reaction later.
MonitorSinkAdoptDue ==
  mon.op # "none" /\ ~mon.adopted /\ IsSettled(SinkPromise(State, "mon"))

MonitorSinkAdopt ==
  /\ MonitorSinkAdoptDue
  /\ mon' = [mon EXCEPT !.adopted = TRUE,
                        !.behind = IsRejected(dst.closedP) /\ ~mon.catchDone]
  /\ UNCHANGED <<cfg, pc, dst, ts, rd, sig, ad, usr, events>>

\* The stream's reaction to its own promise: it runs after the catch on
\* #monitoredWriter.closed when that catch was due first.
MonitorSinkSettlesDue ==
  mon.op # "none" /\ mon.adopted /\ (mon.behind => mon.catchDone)

MonitorSinkSettles ==
  /\ MonitorSinkSettlesDue
  /\ Becomes(SinkSettled(State, "mon"))

TransformSinkSettlesDue ==
  dst.op # "none" /\ IsSettled(SinkPromise(State, "dst"))

TransformSinkSettles ==
  /\ TransformSinkSettlesDue
  /\ Becomes(SinkSettled(State, "dst"))

TransformWriteResumesDue == ts.blocked /\ ts.unblocked

TransformWriteResumes ==
  /\ TransformWriteResumesDue
  /\ Becomes(TransformStreamDefaultSinkWriteResume(State))

\* Promise.resolve(flush()).then(this.#closeTransformerIfNotAlreadyClosed)
FlushThenDue == ts.flush = "then"

FlushThen ==
  /\ FlushThenDue
  /\ Becomes([closeTransformerIfNotAlreadyClosed(State)
               EXCEPT !.ts.flush = "ok"])

FlushPromiseSettlesDue == ts.flush \in {"ok", "rej"}

FlushPromiseSettles ==
  /\ FlushPromiseSettlesDue
  /\ Becomes(TransformStreamDefaultSinkCloseSettled(State))

PullSettlesDue == rd.pulling /\ rd.pullResolved

PullSettles ==
  /\ PullSettlesDue
  /\ LET s1 == [State EXCEPT !.rd.pulling = FALSE, !.rd.pullAgain = FALSE,
                             !.rd.pullResolved = FALSE]
     IN Becomes(IF rd.pullAgain
                  THEN ReadableStreamDefaultControllerCallPullIfNeeded(s1)
                ELSE s1)

\* this.#monitoredWriter.closed.catch(controller.error.bind(controller)):
\* a reaction to the same promise as the constructor's catch, added after
\* it, so it runs after it.
\* Mutant: the reaction is registered with then() instead of catch().
MonitoredWriterClosedThenDue ==
  /\ mon.catchReg /\ ~mon.catchDone
  /\ dst.closedP = "ok"
  /\ pc = "live" => sig.catchDone

MonitoredWriterClosedCatchDue ==
  /\ mon.catchReg /\ ~mon.catchDone
  /\ IsRejected(dst.closedP)
  /\ pc = "live" => sig.catchDone

MonitoredWriterClosedCatch ==
  /\ MonitoredWriterClosedCatchDue
  /\ Becomes(WritableStreamDefaultControllerError(
               [State EXCEPT !.mon.catchDone = TRUE], "mon", dst.closedP))

\* Mutant: the signal is aborted when the pipe settles either way.
TransformMonitorPipeSettled ==
  pc = "live" /\ ~sig.catchDone /\ IsSettled(dst.closedP)

\* Mutant: the signal is aborted as soon as the transform stream's
\* writable side starts failing, before the pipe has rejected.
TransformMonitorPipeCatchPreemptive ==
  pc = "live" /\ ~sig.catchDone /\ dst.state \in {"erroring", "errored"}

\* this.#transformMonitorPipe.catch(reason => abortController.abort(reason))
TransformMonitorPipeCatchDue ==
  pc = "live" /\ ~sig.catchDone /\ IsRejected(dst.closedP)

\* Mutant: the catch aborts the signal without the reason.
TransformMonitorPipeCatchWithoutReason ==
  /\ TransformMonitorPipeCatchDue
  /\ Becomes(AbortControllerAbort(
               [State EXCEPT !.sig.catchDone = TRUE], "Undef"))

TransformMonitorPipeCatch ==
  /\ TransformMonitorPipeCatchDue
  /\ Becomes(AbortControllerAbort(
               [State EXCEPT !.sig.catchDone = TRUE], dst.closedP))

\* A source piped into the stream, src.pipeThrough(stream): a ReadableStream
\* whose pull() enqueues one chunk, with the default capacity of one chunk.
\* It pulls whenever its queue is empty.
SourcePullDue ==
  /\ usr.piping /\ pc \in {"live", "base"}
  /\ usr.srcQueue = 0 /\ usr.pulls < MaxPulls

SourcePull ==
  /\ SourcePullDue
  /\ usr' = [usr EXCEPT !.srcQueue = 1, !.pulls = @ + 1]
  /\ UNCHANGED <<cfg, pc, mon, dst, ts, rd, sig, ad, events>>

\* The pipe: when the writable side wants more (its writer is ready), it
\* takes the source's chunk and writes it, without waiting for the write.
PipeWriteDue ==
  /\ usr.piping /\ pc \in {"live", "base"}
  /\ usr.srcQueue > 0
  /\ Writable.state = "writable"
  /\ WritableStreamDefaultControllerGetDesiredSize(Writable) > 0

PipeWrite ==
  /\ PipeWriteDue
  /\ Becomes(WritableStreamDefaultWriterWrite(
               [State EXCEPT !.usr.written = @ + 1, !.usr.srcQueue = @ - 1],
               IF pc = "base" THEN "dst" ELSE "mon", usr.written + 1))

\* The consumer of a pipeline makes a bounded number of reads.
PipeRead ==
  /\ Len(rd.out) + rd.reqs < MaxPipeReads
  /\ rd.reqs < MaxPendingReads
  /\ pc \in {"live", "base"}
  /\ Becomes(ReadableStreamDefaultReaderRead(State))

\* Nothing is pending: no promise reaction is due and no flush() is running.
Quiescent ==
  ~(\/ FlushSettlesDue
    \/ SourcePullDue
    \/ PipeWriteDue
    \/ MonitorStartDue
    \/ TransformStreamStartDue
    \/ MonitorSinkAdoptDue
    \/ MonitorSinkSettlesDue
    \/ TransformSinkSettlesDue
    \/ TransformWriteResumesDue
    \/ FlushThenDue
    \/ FlushPromiseSettlesDue
    \/ PullSettlesDue
    \/ MonitoredWriterClosedCatchDue
    \/ TransformMonitorPipeCatchDue)

Reaction ==
  \/ MonitorStart
  \/ TransformStreamStart
  \/ MonitorSinkAdopt
  \/ MonitorSinkSettles
  \/ TransformSinkSettles
  \/ TransformWriteResumes
  \/ FlushThen
  \/ FlushPromiseSettles
  \/ PullSettles
  \/ MonitoredWriterClosedCatch
  \/ TransformMonitorPipeCatch

Next ==
  \/ Construct
  \/ Write
  \/ Close
  \/ Abort
  \/ Read
  \/ Cancel
  \/ FlushSettles
  \/ Reaction

Spec == Init /\ [][Next]_vars

\* The Transformer, which kept the controller that start() was given, adds
\* another abort listener to controller.signal at some later time.  An
\* AbortSignal calls the listeners it has when it is aborted; adding a
\* listener calls nothing.
\* Mutant: a listener added to an aborted signal is called at once.
AddAbortListenerReplaying ==
  /\ pc = "live"
  /\ sig.listener
  /\ sig.added = "none"
  /\ Becomes(IF sig.aborted
               THEN TransformerAddedListener(
                      [State EXCEPT !.sig.added = "late"])
             ELSE [State EXCEPT !.sig.added = "early"])

AddAbortListener ==
  /\ pc = "live"
  /\ sig.listener
  /\ sig.added = "none"
  /\ sig' = [sig EXCEPT !.added = IF sig.aborted THEN "late" ELSE "early"]
  /\ UNCHANGED <<cfg, pc, mon, dst, ts, rd, ad, usr, events>>

ListenerNext ==
  \/ Next
  \/ AddAbortListener

\* The Transformers whose start() adds an abort listener.
ListenerInit == Init /\ cfg.listen

ListenerSpec == ListenerInit /\ [][ListenerNext]_vars

----------------------------------------------------------------------------
\* A stream whose Transformer does not fail, and a producer and a consumer
\* that go on calling abort() and cancel() on sides that have shut down.

\* writer.abort(reason) on a writable side that is closed or errored.
LateAbort ==
  /\ pc = "live"
  /\ ~usr.aborted
  /\ ~WritableLive
  /\ Becomes(WritableStreamAbort(
               [State EXCEPT !.usr.aborted = TRUE], "mon", "Ra"))

\* reader.cancel(reason) on a readable side that is closed or errored.
LateCancel ==
  /\ pc = "live"
  /\ ~usr.cancelled
  /\ rd.state # "readable"
  /\ Becomes(ReadableStreamCancel(
               [State EXCEPT !.usr.cancelled = TRUE], "Rc"))

\* Transformers whose start() or transform() calls controller.terminate().
TerminateConfigs ==
  {c \in {[hasClose |-> TRUE, start |-> s, transform |-> x, flush |-> f,
           listen |-> s # "none", hwm |-> h, whwm |-> 1, abort |-> "none"] :
            s \in {"none", "enqueue", "terminate"},
            x \in {"enqueue", "terminate"},
            f \in {"enqueue", "asyncOk"}, h \in ReadableHighWaterMarks} :
     c.start = "terminate" \/ c.transform = "terminate"}

TerminateInit ==
  /\ cfg \in TerminateConfigs
  /\ pc = "new"
  /\ mon = NewWritableStream
  /\ dst = NewWritableStream
  /\ ts = NewTransformStream
  /\ rd = NewReadableStream(cfg.hwm)
  /\ sig = NewSignal
  /\ ad = NewAdapter
  /\ usr = NewUser
  /\ events = <<>>

TerminateSpec == TerminateInit /\ [][Next]_vars

TerminalConfigs ==
  {c \in Configs : /\ c.hasClose
                   /\ c.start \in {"none", "enqueue"}
                   /\ c.transform \in {"none", "enqueue"}
                   /\ c.flush \in {"none", "enqueue", "asyncOk"}}

TerminalInit == Init /\ cfg \in TerminalConfigs

TerminalNext ==
  \/ Next
  \/ LateAbort
  \/ LateCancel

TerminalSpec == TerminalInit /\ [][TerminalNext]_vars

----------------------------------------------------------------------------
\* The comparison the tests make: the same Transformer given to a plain
\* TransformStream and to a ShutdownAwareTransformStream, the producer
\* writing and closing, the consumer reading to the end.

\* A plain Transformer: no close(), and no signal to listen to.
BaseInit ==
  /\ cfg \in {[c EXCEPT !.hasClose = FALSE, !.listen = FALSE] :
                c \in Configs}
  /\ pc = "newBase"
  /\ mon = NewWritableStream
  /\ dst = NewWritableStream
  /\ ts = NewTransformStream
  /\ rd = NewReadableStream(cfg.hwm)
  /\ sig = NewSignal
  /\ ad = NewAdapter
  /\ usr = NewUser
  /\ events = <<>>

\* new TransformStream(transformer, writableStrategy, readableStrategy)
BaseConstruct ==
  /\ pc = "newBase"
  /\ Becomes(The({ IF s1.exc # "none" THEN [Caught(s1) EXCEPT !.pc = "failed"]
                   ELSE [s1 EXCEPT !.pc = "base"]
                 : s1 \in {IF cfg.start # "none"
                             THEN TransformerStart(
                                    [State EXCEPT !.dst.hwm = cfg.whwm])
                           ELSE [State EXCEPT !.dst.hwm = cfg.whwm]} }))

BaseWrite ==
  /\ pc = "base"
  /\ usr.written < MaxWrites
  /\ ~usr.closed
  /\ dst.state \in {"writable", "erroring"}
  /\ Becomes(WritableStreamDefaultWriterWrite(
               [State EXCEPT !.usr.written = @ + 1], "dst", usr.written + 1))

BaseClose ==
  /\ pc = "base"
  /\ ~usr.closed
  /\ dst.state \in {"writable", "erroring"}
  /\ Becomes(WritableStreamDefaultWriterClose(
               [State EXCEPT !.usr.closed = TRUE], "dst"))

CompareInit == Init \/ BaseInit

CompareNext ==
  \/ Construct
  \/ Write
  \/ Close
  \/ BaseConstruct
  \/ BaseWrite
  \/ BaseClose
  \/ Read
  \/ FlushSettles
  \/ Reaction

CompareSpec == CompareInit /\ [][CompareNext]_vars

----------------------------------------------------------------------------
\* The pipeline of the backpressure tests: a source that always has a chunk,
\* piped through either stream, with no transform() or one that enqueues
\* the chunk it is given, for each capacity of the two sides.

Capacities == 1..MaxCapacity

PipeConfigs ==
  {[hasClose |-> FALSE, start |-> "none", transform |-> tr, flush |-> "none",
    listen |-> FALSE, hwm |-> r, whwm |-> w, abort |-> "none"] :
     tr \in {"none", "identity"}, r \in Capacities, w \in Capacities}

PipeInit ==
  /\ cfg \in PipeConfigs
  /\ pc \in {"new", "newBase"}
  /\ mon = [NewWritableStream EXCEPT !.wP = [i \in 1..MaxPulls |-> "none"]]
  /\ dst = [NewWritableStream EXCEPT !.wP = [i \in 1..MaxPulls |-> "none"]]
  /\ ts = NewTransformStream
  /\ rd = NewReadableStream(cfg.hwm)
  /\ sig = NewSignal
  /\ ad = NewAdapter
  /\ usr = [NewUser EXCEPT !.piping = TRUE]
  /\ events = <<>>

\* Nothing closes or fails in this pipeline, so the reactions to a flush()
\* and to a rejected closed promise have nothing to react to.
PipeNext ==
  \/ Construct
  \/ BaseConstruct
  \/ SourcePull
  \/ PipeWrite
  \/ PipeRead
  \/ MonitorStart
  \/ TransformStreamStart
  \/ MonitorSinkAdopt
  \/ MonitorSinkSettles
  \/ TransformSinkSettles
  \/ TransformWriteResumes
  \/ PullSettles

PipeSpec == PipeInit /\ [][PipeNext]_vars

----------------------------------------------------------------------------
\* The monitor on its own, as its tests use it: a producer writing to it,
\* closing or aborting it, and pipeTo() binding it to a plain
\* TransformStream's writable side (destination "A") before or after that.

MonitorInit ==
  /\ cfg \in {[hasClose |-> FALSE, start |-> "none", transform |-> "none",
                flush |-> "none", listen |-> FALSE, hwm |-> h, whwm |-> 1,
                abort |-> "none"] :
                 h \in ReadableHighWaterMarks}
  /\ pc = "monitor"
  /\ mon = NewWritableStream
  /\ dst = NewWritableStream
  /\ ts = NewTransformStream
  /\ rd = NewReadableStream(cfg.hwm)
  /\ sig = NewSignal
  /\ ad = NewAdapter
  /\ usr = NewUser
  /\ events = <<>>

\* monitor.pipeTo(destination).  Another destination "B" is offered only to
\* a monitor that is bound already.
PipeTo(destination) ==
  /\ pc = "monitor"
  /\ usr.pipeCalls < MaxPipeTo
  /\ destination = "B" => mon.monitoredWriter
  /\ Becomes(The({ IF s1.exc # "none"
                     THEN [Caught(s1) EXCEPT !.usr.pipeThrew = s1.exc]
                   ELSE [s1 EXCEPT !.usr.pipeThrew = "none",
                                   !.usr.before =
                                     [written |-> usr.written,
                                      closed |-> usr.closed,
                                      aborted |-> usr.aborted,
                                      destErrored |-> usr.destErrored]]
                 : s1 \in {pipeTo([State EXCEPT !.usr.pipeCalls = @ + 1],
                                  destination)} }))

\* destination.getWriter() by someone else, before the monitor is bound.
LockDestination ==
  /\ pc = "monitor"
  /\ "A" \notin usr.locks
  /\ usr' = [usr EXCEPT !.locks = @ \cup {"A"}]
  /\ UNCHANGED <<cfg, pc, mon, dst, ts, rd, sig, ad, events>>

\* The destination fails on its own: its controller.error(Rd).
DestinationError ==
  /\ pc = "monitor"
  /\ ~usr.destErrored
  /\ Becomes(TransformStreamError(
               [State EXCEPT !.usr.destErrored = TRUE], "Rd"))

\* The monitor bound to a destination that fails: its write of a chunk
\* throws E, or its abort handler throws F.
FailingDestinations ==
  {c \in {[hasClose |-> FALSE, start |-> "none", transform |-> t,
           flush |-> "none", listen |-> FALSE, hwm |-> h, whwm |-> 1,
           abort |-> a] :
            t \in {"none", "throw"}, a \in {"none", "throw"},
            h \in ReadableHighWaterMarks} :
     c.transform = "throw" \/ c.abort = "throw"}

FailingDestinationInit ==
  /\ cfg \in FailingDestinations
  /\ pc = "monitor"
  /\ mon = NewWritableStream
  /\ dst = NewWritableStream
  /\ ts = NewTransformStream
  /\ rd = NewReadableStream(cfg.hwm)
  /\ sig = NewSignal
  /\ ad = NewAdapter
  /\ usr = NewUser
  /\ events = <<>>

MonitorNext ==
  \/ \E destination \in {"A", "B"} : PipeTo(destination)
  \/ LockDestination
  \/ DestinationError
  \/ Write
  \/ Close
  \/ Abort
  \/ Read
  \/ MonitorStart
  \/ TransformStreamStart
  \/ MonitorSinkAdopt
  \/ MonitorSinkSettles
  \/ TransformSinkSettles
  \/ TransformWriteResumes
  \/ FlushPromiseSettles
  \/ PullSettles
  \/ MonitoredWriterClosedCatch

MonitorSpec == MonitorInit /\ [][MonitorNext]_vars

\* other = new WritableStream(); other.getWriter(); monitor.pipeTo(other):
\* pipeTo() with a destination that is locked, the monitor not being bound.
PipeToLocked ==
  /\ pc = "monitor"
  /\ usr.pipeCalls < MaxPipeTo
  /\ ~mon.monitoredWriter
  /\ Becomes(The({ IF s1.exc # "none"
                     THEN [Caught(s1) EXCEPT !.usr.pipeThrew = s1.exc]
                   ELSE [s1 EXCEPT !.usr.pipeThrew = "none",
                                   !.usr.before =
                                     [written |-> usr.written,
                                      closed |-> usr.closed,
                                      aborted |-> usr.aborted,
                                      destErrored |-> usr.destErrored]]
                 : s1 \in {pipeTo([State EXCEPT !.usr.pipeCalls = @ + 1,
                                                !.usr.locks = @ \cup {"B"}],
                                  "B")} }))

\* The monitor, with calls of pipeTo() that fail before one that binds.
RebindNext ==
  \/ MonitorNext
  \/ PipeToLocked

RebindSpec == MonitorInit /\ [][RebindNext]_vars

FailingDestinationSpec == FailingDestinationInit /\ [][MonitorNext]_vars

----------------------------------------------------------------------------
\* Properties.

\* The stream has shut down: flush() was invoked at end-of-input, start()
\* returned a rejected promise, or one of the transform stream's sides left
\* its initial state (transform() threw or called controller.error(), the
\* writable side's abort reached it, the readable side was cancelled).
StreamEnded ==
  /\ pc = "live"
  /\ \/ ts.flush # "none"
     \/ ts.startP = "E"
     \/ rd.state # "readable"
     \/ dst.state # "writable"

\* C1: close() is invoked at most once under every interleaving of
\* end-of-input, a failing flush(), abort and cancel; a flush() that fails
\* after close() ran does not make the abort listener deliver it again.
C1_CloseAtMostOnce == usr.closeCount <= 1

\* A flush() that called controller.error(): close() ran from the then()
\* reaction, later the signal aborted and its listener ran as well.
C1_Witness ==
  /\ cfg.flush \in {"error", "asyncError"}
  /\ ts.flush = "done"
  /\ sig.aborted /\ sig.reason = "E"
  /\ usr.closeCount = 1

\* C2: after a successful construction, once the stream has ended and
\* nothing is pending any more, close() has been invoked.
C2_CloseInvokedAfterEnd ==
  (cfg.hasClose /\ StreamEnded /\ Quiescent) => usr.closeCount >= 1

\* start() returned a rejected promise; close() ran through the signal.
C2_Witness ==
  /\ cfg.start = "reject" /\ Quiescent
  /\ usr.closeCount = 1 /\ usr.closeSawAborted /\ usr.closeSawReason = "E"

ShutdownEvents ==
  SelectSeq(events, LAMBDA e : e \in {"flush", "flushed", "close"})

\* C4: at end-of-input with a flush() that succeeds, synchronous or
\* asynchronous, the order is flush() invoked, flush() finished, close();
\* and once nothing is pending, close() has been invoked.
C4_FlushBeforeClose ==
  (cfg.hasClose /\ cfg.flush \in {"enqueue", "asyncOk"} /\ ts.flush # "none")
    => /\ ShutdownEvents \in {<<"flush">>, <<"flush", "flushed">>,
                              <<"flush", "flushed", "close">>}
       /\ Quiescent => ShutdownEvents = <<"flush", "flushed", "close">>

\* A stream with an asynchronous flush() that has closed cleanly.
C4_Witness ==
  /\ cfg.flush = "asyncOk"
  /\ ShutdownEvents = <<"flush", "flushed", "close">>
  /\ ~sig.aborted /\ rd.state = "closed" /\ mon.closedP = "ok"

\* C5: once flush() has been invoked, close() is not invoked before
\* flush() has settled, whichever way flush() ends and whatever is
\* cancelled or aborted meanwhile.
C5_NoCloseWhileFlushPending ==
  \A i, j \in 1..Len(events) :
    (i < j /\ events[i] = "flush" /\ events[j] = "close")
      => \E k \in (i + 1)..(j - 1) : events[k] = "flushed"

\* The readable side was cancelled while an asynchronous flush() was
\* pending; close() ran only after flush() settled, through the signal.
C5_Witness ==
  /\ IsAsyncFlush(cfg.flush) /\ usr.cancelled
  /\ sig.aborted /\ sig.reason = "Rc"
  /\ ShutdownEvents = <<"flush", "flushed", "close">>

IsPrefix(a, b) ==
  Len(a) <= Len(b) /\ \A i \in 1..Len(a) : a[i] = b[i]

\* What the readable side yields for the chunks 1..usr.written when
\* nothing fails: start()'s chunk, each written chunk as transform() passes
\* it on, flush()'s chunk.
ExpectedOutput ==
  (IF cfg.start = "enqueue" THEN <<StartChunk>> ELSE <<>>)
  \o [i \in 1..usr.written |->
        IF cfg.transform = "none" THEN i ELSE Stringified(i)]
  \o (IF cfg.flush = "enqueue" THEN <<FlushChunk>> ELSE <<>>)

\* The readable side reached its end without being cancelled.
CleanlyClosed == rd.state = "closed" /\ ~usr.cancelled

\* C6: without a transform() (also with no Transformer at all) the chunks
\* read are the chunks written, unchanged and in order; the readable side
\* does not fail unless start(), flush() or the producer make it; when it
\* has closed cleanly every written chunk was read, and the writable side
\* closes too.
C6_IdentityWithoutTransform ==
  cfg.transform = "none" =>
    /\ IsPrefix(rd.out, ExpectedOutput)
    /\ CleanlyClosed => rd.out = ExpectedOutput
    /\ (CleanlyClosed /\ Quiescent) => mon.closedP = "ok"
    /\ (cfg.start \notin Failing /\ cfg.flush \notin Failing /\ ~usr.aborted)
         => rd.state # "errored"

\* No Transformer at all: both chunks written were read, then the end.
C6_Witness ==
  /\ ~cfg.hasClose /\ cfg.transform = "none"
  /\ usr.written = MaxWrites /\ rd.out = [i \in 1..MaxWrites |-> i]
  /\ rd.state = "closed" /\ rd.lastRead = "done" /\ mon.closedP = "ok"

\* C7: with {transformer} whose start(), transform() and flush() each
\* enqueue, the chunks read are start()'s chunk, one transformed chunk per
\* written chunk in order, then flush()'s chunk, then the clean end.
C7_StartTransformFlushOutput ==
  (cfg.start = "enqueue" /\ cfg.transform = "enqueue"
     /\ cfg.flush = "enqueue") =>
    /\ IsPrefix(rd.out, ExpectedOutput)
    /\ CleanlyClosed => rd.out = ExpectedOutput
    /\ (CleanlyClosed /\ Quiescent) => mon.closedP = "ok"
    /\ ~usr.aborted => rd.state # "errored"

C7_Witness ==
  /\ cfg.start = "enqueue" /\ cfg.transform = "enqueue"
  /\ cfg.flush = "enqueue" /\ usr.written = MaxWrites
  /\ rd.out = <<StartChunk>> \o [i \in 1..MaxWrites |-> Stringified(i)]
                \o <<FlushChunk>>
  /\ rd.state = "closed" /\ rd.lastRead = "done" /\ mon.closedP = "ok"

\* No method of the Transformer fails.
NoFailure ==
  cfg.start \notin Failing /\ cfg.transform \notin Failing
    /\ cfg.flush \notin Failing

\* C8 as claimed: after writer.abort(Ra) on a stream that nothing else
\* has ended or closed, once nothing is pending the readable side is
\* errored with Ra and the writer's closed promise has rejected with Ra.
C8_AbortAlwaysErrorsBothSides ==
  (Quiescent /\ usr.aborted /\ ~usr.cancelled /\ ~usr.closed /\ NoFailure)
    => /\ rd.state = "errored" /\ rd.err = "Ra"
       /\ mon.state = "errored" /\ mon.closedP = "Ra"

\* C8, amended: after writer.abort(Ra) on a stream that nothing else has
\* ended, once nothing is pending: the readable side is errored with Ra
\* and the writer's closed promise has rejected with Ra -- unless the abort
\* still waits behind a write in flight that backpressure holds, or the
\* producer's own close() completed first.
C8_AbortErrorsBothSides ==
  (Quiescent /\ usr.aborted /\ ~usr.cancelled /\ NoFailure) =>
    \/ mon.op = "write" /\ ts.blocked /\ mon.state = "erroring"
    \/ usr.closed /\ mon.state = "closed" /\ mon.closedP = "ok"
    \/ /\ rd.state = "errored" /\ rd.err = "Ra"
       /\ mon.state = "errored" /\ mon.closedP = "Ra"

\* The abort went through and a read failed with its reason.
C8_Witness ==
  /\ Quiescent /\ usr.aborted /\ ~usr.cancelled /\ NoFailure
  /\ rd.state = "errored" /\ rd.err = "Ra" /\ rd.lastRead = "Ra"
  /\ mon.state = "errored" /\ mon.closedP = "Ra"

\* C9: after reader.cancel(Rc) on a stream whose producer has neither
\* closed nor aborted it, once nothing is pending the writable side is
\* errored with Rc and its writer's closed promise has rejected with Rc,
\* whether or not the producer does anything more.
C9_CancelErrorsWritable ==
  (Quiescent /\ usr.cancelled /\ ~usr.aborted /\ ~usr.closed /\ NoFailure)
    => mon.state = "errored" /\ mon.err = "Rc" /\ mon.closedP = "Rc"

\* Cancelled before the producer did anything at all.
C9_Witness ==
  /\ Quiescent /\ usr.cancelled /\ ~usr.aborted /\ ~usr.closed
  /\ usr.written = 0 /\ mon.state = "errored" /\ mon.closedP = "Rc"

\* transform() threw, so the stream has failed with E.
TransformThrew ==
  cfg.transform = "throw" /\ \E i \in 1..Len(events) : events[i] = "transform"

\* C10: the abort listener added in start() runs at most once; when it
\* runs, signal.aborted is true and signal.reason is the reason the stream
\* failed with (Ra after an abort, Rc after a cancel, E after transform()
\* threw); and once a failed stream has nothing pending, it has run.
C10_AbortListenerOnceWithReason ==
  (cfg.listen /\ pc = "live") =>
    /\ usr.listenerCount <= 1
    /\ usr.listenerCount = 1 =>
         /\ usr.listenerSawAborted
         /\ usr.listenerSawReason = dst.err
         /\ dst.state = "errored"
    /\ (Quiescent /\ dst.state = "errored") => usr.listenerCount = 1
    /\ (dst.state = "errored" /\ ts.aP = "ok") => dst.err = "Ra"
    /\ (dst.state = "errored" /\ usr.cancelled /\ ~usr.aborted
          /\ NoFailure) => dst.err = "Rc"
    /\ TransformThrew => dst.err = "E"

\* transform() threw E and the listener saw it.
C10_Witness ==
  /\ cfg.listen /\ TransformThrew
  /\ usr.listenerCount = 1 /\ usr.listenerSawAborted
  /\ usr.listenerSawReason = "E"

\* C11: when the writable side was aborted or the readable side cancelled
\* before the producer closed the writable side, flush() is never invoked,
\* whether or not the producer calls close() afterwards; flush() is only
\* ever invoked after the producer's close().
C11_NoFlushAfterAbortOrCancel ==
  /\ usr.endedFirst => \A i \in 1..Len(events) : events[i] # "flush"
  /\ (\E i \in 1..Len(events) : events[i] = "flush") => usr.closed

\* Aborted, then closed by the producer, with a flush() to call: the
\* stream has failed with Ra, close() ran, flush() did not.
C11_Witness ==
  /\ cfg.flush # "none" /\ NoFailure
  /\ usr.endedFirst /\ usr.aborted /\ usr.closed /\ Quiescent
  /\ mon.state = "errored" /\ usr.closeCount = 1
  /\ \A i \in 1..Len(events) : events[i] # "flush"

\* C12: at a clean end-of-input (the producer closed the writable side,
\* nobody aborted or cancelled, no method of the Transformer fails) the
\* signal never aborts: no abort listener runs, and close() sees
\* signal.aborted false.  The same holds whenever the producer's close()
\* has succeeded.
C12_NoAbortSignalOnCleanEnd ==
  (\/ usr.closed /\ ~usr.aborted /\ ~usr.cancelled /\ NoFailure
   \/ mon.state = "closed")
    => /\ ~sig.aborted
       /\ usr.listenerCount = 0
       /\ usr.closeCount = 1 => ~usr.closeSawAborted

\* A stream with an abort listener that closed cleanly: close() ran and
\* saw a signal that had not aborted.
C12_Witness ==
  /\ cfg.listen /\ cfg.hasClose /\ NoFailure
  /\ usr.closed /\ ~usr.aborted /\ ~usr.cancelled /\ Quiescent
  /\ mon.closedP = "ok" /\ rd.state = "closed"
  /\ usr.closeCount = 1 /\ ~usr.closeSawAborted /\ usr.listenerCount = 0

WroteAndClosed ==
  /\ pc \in {"live", "base"}
  /\ usr.written = 1 /\ usr.closed /\ ~usr.aborted /\ ~usr.cancelled

\* The consumer has read to the end or to the error.
Consumed == rd.lastRead \notin {"none", "chunk"}

\* C14: with a failing Transformer, a ShutdownAwareTransformStream and a
\* plain TransformStream fail the same operation of write(); close() with
\* the same reason E: the constructor when start() throws; write() when
\* start() rejects or transform() throws; close(), after a write() that
\* succeeded, when flush() throws or transform() calls controller.error(E).
\* Once the consumer has read to the end and nothing is pending, write()
\* and close() have settled.
C14_FailsWhereBaseFails ==
  /\ (cfg.start = "throw" /\ pc \notin {"new", "newBase"}) => pc = "failed"
  /\ WroteAndClosed =>
       /\ (cfg.start = "reject" \/ cfg.transform = "throw") =>
            (IsSettled(Writable.wP[1]) => Writable.wP[1] = "E")
       /\ (cfg.flush = "throw" \/ cfg.transform = "error") =>
            /\ IsSettled(Writable.wP[1]) => Writable.wP[1] = "ok"
            /\ IsSettled(Writable.cP) => Writable.cP = "E"
       /\ (Quiescent /\ Consumed) =>
            IsSettled(Writable.wP[1]) /\ IsSettled(Writable.cP)

\* The wrapped stream when transform() calls controller.error(E): write()
\* succeeded and close() failed with E.
C14_Witness ==
  /\ pc = "live" /\ WroteAndClosed /\ cfg.transform = "error"
  /\ Quiescent /\ Consumed
  /\ mon.wP[1] = "ok" /\ mon.cP = "E"

\* The read requests the consumer has made.
ReadsMade == Len(rd.out) + rd.reqs

\* C15: a source that always has a chunk, piped through a stream with
\* writable capacity W and readable capacity R, is never pulled more than
\* 1 + W + R times plus once per read request made, and once nothing is
\* pending it has been pulled exactly that often: 1 + W + R times with
\* nothing read, one more for each read request.  The same for the
\* ShutdownAwareTransformStream and the plain TransformStream, without a
\* transform() and with one that passes the chunk on.
C15_PullsFillThePipeline ==
  (usr.piping /\ pc \in {"live", "base"}) =>
    /\ usr.pulls <= 1 + cfg.whwm + cfg.hwm + ReadsMade
    /\ Quiescent => usr.pulls = 1 + cfg.whwm + cfg.hwm + ReadsMade
    /\ ~(FlushThenDue \/ FlushPromiseSettlesDue \/ FlushSettlesDue
          \/ MonitoredWriterClosedCatchDue \/ TransformMonitorPipeCatchDue)

\* The wrapped stream with both capacities 2 and an identity transform():
\* full after 5 pulls with nothing read.
C15_Witness ==
  /\ usr.piping /\ pc = "live" /\ cfg.transform = "identity"
  /\ cfg.whwm = MaxCapacity /\ cfg.hwm = MaxCapacity
  /\ Quiescent /\ ReadsMade = 0
  /\ usr.pulls = 1 + 2 * MaxCapacity
  /\ Len(mon.queue) = MaxCapacity /\ Len(rd.queue) = MaxCapacity
  /\ usr.srcQueue = 1

\* The chunks the producer has written, in the order of its calls.
ChunksWritten == [i \in 1..usr.written |-> i]

\* C16: a pipeTo() on a monitor that is bound already throws the
\* "already pipedTo a destination" error and changes nothing: the monitor
\* stays bound to its first destination, the promise the first pipeTo()
\* returned stands, the other destination's writer is not taken, and what
\* the producer writes and closes still arrives at the first destination.
C16_SecondPipeToFails ==
  (pc = "monitor" /\ mon.monitoredWriter /\ usr.pipeCalls >= 2) =>
    /\ usr.pipeThrew = "AlreadyPiped"
    /\ mon.dest = "A" /\ usr.locks = {"A"} /\ usr.pipeP = "closed"
    /\ (Quiescent /\ usr.closed /\ ~usr.aborted /\ ~usr.destErrored
          /\ rd.lastRead = "done")
         => rd.out = ChunksWritten /\ dst.closedP = "ok"

\* Bound, a second pipeTo() refused, and then two chunks and the close
\* went through to the first destination.
C16_Witness ==
  /\ pc = "monitor" /\ mon.monitoredWriter /\ usr.pipeCalls = 2
  /\ usr.pipeThrew = "AlreadyPiped" /\ usr.before.written = 0
  /\ usr.written = MaxWrites /\ rd.out = ChunksWritten
  /\ rd.lastRead = "done" /\ dst.closedP = "ok" /\ mon.closedP = "ok"

\* C17: pipeTo() with a destination whose writer someone else holds
\* throws the destination's "already locked" error at once: no promise is
\* returned, and the monitor is left unbound.
C17_LockedDestinationThrows ==
  (pc = "monitor" /\ "A" \in usr.locks /\ mon.dest # "A"
     /\ usr.pipeCalls >= 1) =>
    /\ usr.pipeThrew = "Locked"
    /\ usr.pipeP = "none"
    /\ ~mon.monitoredWriter /\ mon.dest = "none" /\ ~mon.started

\* The destination was locked, then pipeTo() was called, after a write.
C17_Witness ==
  /\ pc = "monitor" /\ usr.locks = {"A"} /\ ~mon.monitoredWriter
  /\ usr.pipeCalls = 1 /\ usr.pipeThrew = "Locked" /\ usr.pipeP = "none"
  /\ usr.written = 1

\* What the destination has been handed: for a TransformStream without a
\* Transformer, what has been read from it and what waits to be read.
Delivered == rd.out \o rd.queue

\* C18: the chunks written to the monitor, before pipeTo() or after it,
\* arrive at the destination once each and in the order written, and none
\* arrives before the monitor is bound; once the monitor is bound and the
\* producer has closed, no read of the consumer is left waiting, and when
\* it has read to the end, every chunk has arrived and the destination is
\* closed.
C18_ChunksReachDestination ==
  (pc = "monitor" /\ ~usr.aborted /\ ~usr.destErrored) =>
    /\ IsPrefix(Delivered, ChunksWritten)
    /\ ~mon.monitoredWriter => Delivered = <<>> /\ dst.queue = <<>>
    /\ (Quiescent /\ mon.monitoredWriter /\ usr.closed) => rd.reqs = 0
    /\ (Quiescent /\ mon.monitoredWriter /\ usr.closed
          /\ rd.lastRead = "done")
         => /\ rd.out = ChunksWritten
            /\ dst.state = "closed" /\ dst.closedP = "ok"
            /\ mon.state = "closed" /\ mon.closedP = "ok"

\* Two chunks were written and the monitor closed before pipeTo(); both
\* arrived in order and the destination closed.
C18_Witness ==
  /\ pc = "monitor" /\ mon.monitoredWriter
  /\ usr.before.written = MaxWrites /\ usr.before.closed
  /\ rd.out = ChunksWritten /\ rd.lastRead = "done"
  /\ dst.state = "closed" /\ mon.closedP = "ok"

\* The destination's abort handler has run, once, with the reason Ra of
\* the producer's abort: the destination and what it feeds are errored
\* with Ra.
DestinationAborted ==
  /\ ts.aborts = 1
  /\ dst.state = "errored" /\ dst.err = "Ra" /\ dst.closedP = "Ra"
  /\ rd.state = "errored" /\ rd.err = "Ra"

\* C19 as claimed: after abort(Ra) on a monitor that its producer has not
\* closed and whose destination has not failed on its own, once the
\* monitor is bound and nothing is pending, the destination's abort
\* handler has run exactly once with Ra; and when the abort came before
\* pipeTo(), the promise pipeTo() returned has rejected with Ra.
C19_AbortAlwaysAbortsDestination ==
  (pc = "monitor" /\ Quiescent /\ mon.monitoredWriter /\ usr.aborted
     /\ ~usr.closed /\ ~usr.destErrored)
    => DestinationAborted /\ usr.pipeP = "closed"

\* C19, amended: the destination's abort handler never runs twice.  After
\* abort(Ra) on a monitor whose destination has not failed on its own,
\* once the monitor is bound and nothing is pending: the destination's
\* abort handler has run exactly once with Ra -- unless the abort still
\* waits behind a write in flight that the destination holds under
\* backpressure, or the producer's own close() completed first.  Neither
\* exception arises when the abort came before pipeTo(): then the handler
\* has run once with Ra and the promise pipeTo() returned (the monitored
\* writer's closed promise) has rejected with Ra.
C19_AbortAbortsDestination ==
  /\ pc = "monitor" => ts.aborts <= 1
  /\ (pc = "monitor" /\ Quiescent /\ mon.monitoredWriter /\ usr.aborted
        /\ ~usr.destErrored) =>
       /\ \/ mon.op = "write" /\ ts.blocked /\ mon.state = "erroring"
          \/ usr.closed /\ mon.state = "closed" /\ mon.closedP = "ok"
          \/ DestinationAborted /\ mon.aP = "ok" /\ mon.closedP = "Ra"
       /\ usr.before.aborted =>
            DestinationAborted /\ usr.pipeP = "closed"
       /\ (~usr.closed /\ mon.op = "none") => DestinationAborted

\* The producer wrote and aborted before pipeTo(); the destination's abort
\* handler has run once with Ra and pipeTo()'s promise has rejected.
C19_Witness ==
  /\ pc = "monitor" /\ Quiescent /\ mon.monitoredWriter /\ usr.aborted
  /\ ~usr.destErrored /\ usr.before.aborted /\ usr.before.written > 0
  /\ DestinationAborted /\ usr.pipeP = "closed"
  /\ mon.aP = "ok" /\ mon.closedP = "Ra"

\* The producer has called nothing on the monitor.
ProducerIdle == usr.written = 0 /\ ~usr.closed /\ ~usr.aborted

\* C20: when the destination has failed with Rd, before or after
\* pipeTo(), then once the monitor is bound and nothing is pending, the
\* monitor is errored with Rd and its writer's closed promise has rejected
\* with Rd, without the producer having called write(), close() or
\* abort(); writes of the producer do not change that, and a producer that
\* closed finds the monitor errored with Rd unless its close() had
\* completed before the failure.
C20_DestinationErrorMirrored ==
  (pc = "monitor" /\ Quiescent /\ mon.monitoredWriter /\ usr.destErrored
     /\ ~usr.aborted) =>
    /\ ProducerIdle =>
         mon.state = "errored" /\ mon.err = "Rd" /\ mon.closedP = "Rd"
    /\ ~usr.closed =>
         mon.state = "errored" /\ mon.err = "Rd" /\ mon.closedP = "Rd"
    /\ \/ mon.state = "errored" /\ mon.err = "Rd" /\ mon.closedP = "Rd"
       \/ usr.closed /\ mon.state = "closed" /\ mon.closedP = "ok"

\* The destination failed before pipeTo(), the producer did nothing, and
\* the bound monitor is errored with Rd.
C20_Witness ==
  /\ pc = "monitor" /\ Quiescent /\ mon.monitoredWriter /\ usr.destErrored
  /\ usr.before.destErrored /\ ProducerIdle
  /\ mon.state = "errored" /\ mon.err = "Rd" /\ mon.closedP = "Rd"

\* C21: when the monitor's abort(Ra) has been forwarded to a destination
\* whose abort handler throws F, then once nothing is pending the abort()
\* call on the monitor has failed with F, while the monitor's closed
\* promise and the promise pipeTo() returned (the destination writer's
\* closed promise) have rejected with Ra; and in no state has abort()
\* failed with F without those two having rejected with Ra.
C21_AbortFailureOnlyToCaller ==
  /\ (pc = "monitor" /\ Quiescent /\ mon.monitoredWriter /\ usr.aborted
        /\ cfg.abort = "throw" /\ ts.aborts = 1) =>
       /\ mon.aP = "F"
       /\ mon.state = "errored" /\ mon.err = "Ra" /\ mon.closedP = "Ra"
       /\ usr.pipeP = "closed" /\ dst.closedP = "Ra"
  /\ (pc = "monitor" /\ mon.aP = "F") =>
       /\ mon.closedP = "Ra"
       /\ usr.pipeP = "closed" /\ dst.closedP = "Ra"

\* pipeTo(), then abort(Ra): the destination's handler threw F.
C21_Witness ==
  /\ pc = "monitor" /\ Quiescent /\ mon.monitoredWriter /\ usr.aborted
  /\ cfg.abort = "throw" /\ ts.aborts = 1 /\ ~usr.before.aborted
  /\ mon.aP = "F" /\ mon.closedP = "Ra" /\ dst.closedP = "Ra"

\* The promise pipeTo() returned: the monitored writer's closed promise.
PipePromise == IF usr.pipeP = "closed" THEN dst.closedP ELSE usr.pipeP

\* C22: once the monitor is bound, the promise pipeTo() returned is
\* pending while the destination is neither closed nor errored; it has
\* resolved only if the producer closed the monitor, the destination's
\* close handler ran and the destination is closed; it has rejected only
\* if the destination is errored, and then with the destination's
\* reason; and once nothing is pending it has resolved when the
\* destination is closed and rejected with the destination's reason when
\* the destination is errored.
C22_PipePromiseFollowsDestination ==
  (pc = "monitor" /\ mon.monitoredWriter) =>
    /\ dst.state \in {"writable", "erroring"} => PipePromise = "pending"
    /\ PipePromise = "ok" =>
         /\ dst.state = "closed" /\ usr.closed
         /\ ts.cleared /\ ts.flush = "done"
    /\ IsRejected(PipePromise) =>
         dst.state = "errored" /\ PipePromise = dst.err
    /\ dst.state = "closed" => PipePromise = "ok"
    /\ (Quiescent /\ dst.state = "errored") => PipePromise = dst.err

\* The producer wrote and closed; the destination closed and the promise
\* pipeTo() returned has resolved.
C22_Witness ==
  /\ pc = "monitor" /\ mon.monitoredWriter /\ Quiescent
  /\ usr.written > 0 /\ usr.closed
  /\ dst.state = "closed" /\ mon.state = "closed" /\ PipePromise = "ok"

\* C23: when the destination's write of chunk i has failed with E, the
\* monitor's write() of chunk i has not settled in any other way, and once
\* nothing is pending it has failed with E.
C23_WriteFailureReachesCaller ==
  pc = "monitor" =>
    \A i \in DOMAIN mon.wP :
      dst.wP[i] = "E" =>
        /\ mon.wP[i] \in {"pending", "E"}
        /\ Quiescent => mon.wP[i] = "E"

\* The destination's write of the first chunk threw E and the monitor's
\* write() of it has failed with E.
C23_Witness ==
  /\ pc = "monitor" /\ Quiescent /\ cfg.transform = "throw"
  /\ usr.written > 0 /\ ~usr.aborted /\ ~usr.destErrored
  /\ dst.wP[1] = "E" /\ mon.wP[1] = "E"

\* C24: in every state, the signal is aborted only if the promise pipeTo()
\* returned to the constructor has rejected, and its reason is that
\* rejection's reason; the transformer's abort listener has run at most
\* once; and no step un-aborts the signal or changes its reason.
C24_SignalFollowsPipeRejection ==
  /\ [](sig.aborted =>
          /\ usr.pipeP = "closed" /\ IsRejected(dst.closedP)
          /\ sig.reason = dst.closedP
          /\ sig.catchDone /\ usr.listenerCount <= 1)
  /\ [][sig.aborted => sig'.aborted /\ sig'.reason = sig.reason]_vars

\* The producer aborted with Ra; the pipe rejected with Ra and the signal
\* is aborted with Ra, its listener having run once.
C24_Witness ==
  /\ pc = "live" /\ usr.aborted /\ sig.aborted /\ sig.reason = "Ra"
  /\ dst.closedP = "Ra" /\ usr.listenerCount = 1

\* C25: whenever the abort listener that start() added to controller.signal
\* has run, the Transformer's close() was invoked before it.
C25_CloseBeforeAbortListener ==
  \A i \in DOMAIN events :
    events[i] = "listener" =>
      \E j \in 1..(i - 1) : events[j] = "close"

\* The stream aborted: close() ran as the adapter's listener, which saw the
\* signal aborted, and then the Transformer's listener ran.
C25_Witness ==
  /\ pc = "live" /\ sig.aborted /\ usr.listenerCount = 1
  /\ usr.closeCount = 1 /\ usr.closeSawAborted
  /\ \E i \in DOMAIN events :
       i > 1 /\ events[i] = "listener" /\ events[i - 1] = "close"

\* C26: whenever the Transformer's close() has been invoked, it was given
\* no arguments, whether it ran as the signal's abort listener (it saw
\* the signal aborted) or after flush() (it did not).
C26_CloseTakesNoArguments ==
  usr.closeCount > 0 => usr.closeArgs = 0

\* close() ran as the signal's abort listener, with no arguments.
C26_Witness ==
  /\ pc = "live" /\ usr.closeCount = 1 /\ usr.closeSawAborted
  /\ usr.closeSawReason = "Rc" /\ usr.closeArgs = 0

SettledWhatWasIssuedBefore ==
  /\ \A i \in 1..usr.before.written : IsSettled(mon.wP[i])
  /\ usr.before.closed => IsSettled(mon.cP)
  /\ usr.before.aborted => IsSettled(mon.aP)

\* The destination holds the chunk of the write in flight under
\* backpressure: its consumer has no read waiting.
HeldByBackpressure ==
  /\ mon.op = "write" /\ dst.op = "write"
  /\ ts.blocked /\ ts.backpressure /\ rd.reqs = 0

\* C28: while the monitor is not bound, its start() has not finished and
\* nothing has been forwarded to the destination; every write() issued on
\* a monitor its producer has not aborted is pending, and so are a close()
\* and an abort() that were issued, and the writer's closed promise.  Once
\* pipeTo() has bound the destination and nothing is pending, every
\* write(), close() and abort() issued before pipeTo() has settled, unless
\* the destination holds a chunk under backpressure because its consumer
\* is not reading; with a read of the consumer waiting, all have settled.
C28_DeferredUntilBound ==
  /\ (pc = "monitor" /\ ~mon.monitoredWriter) =>
       /\ ~mon.started /\ mon.op = "none"
       /\ dst.queue = <<>> /\ dst.op = "none" /\ ts.aborts = 0
       /\ ~usr.aborted =>
            \A i \in 1..usr.written : mon.wP[i] = "pending"
       /\ usr.closed => mon.cP = "pending"
       /\ usr.aborted => mon.aP = "pending"
       /\ mon.closedP = "pending"
  /\ (pc = "monitor" /\ mon.monitoredWriter /\ Quiescent) =>
       /\ SettledWhatWasIssuedBefore \/ HeldByBackpressure
       /\ rd.reqs > 0 => SettledWhatWasIssuedBefore

\* Two writes and a close issued before pipeTo() have all succeeded.
C28_Witness ==
  /\ pc = "monitor" /\ mon.monitoredWriter /\ Quiescent
  /\ usr.before.written = MaxWrites /\ usr.before.closed
  /\ \A i \in 1..MaxWrites : mon.wP[i] = "ok"
  /\ mon.cP = "ok" /\ mon.closedP = "ok"

\* C29 as claimed: a close() issued while no destination was bound, on a
\* monitor that is not aborted and whose destination has not failed, has
\* failed once nothing is pending.
C29_CloseBeforeBindingFails ==
  (pc = "monitor" /\ Quiescent /\ ~usr.aborted /\ ~usr.destErrored
     /\ (IF mon.monitoredWriter THEN usr.before.closed ELSE usr.closed))
    => IsRejected(mon.cP)

\* C29, amended: a close() issued while no destination is bound does not
\* fail: it is pending, and the sink's close is not called, for as long as
\* the monitor is not bound; no assertion of the sink ever fails; and once
\* pipeTo() has bound a destination that has not failed, on a monitor that
\* is not aborted, and nothing is pending, the close() has succeeded and
\* the destination is closed, unless the destination still holds a chunk
\* under backpressure.
C29_CloseBeforeBindingDeferred ==
  pc = "monitor" =>
    /\ (~mon.monitoredWriter /\ usr.closed) =>
         mon.cP = "pending" /\ mon.op = "none" /\ dst.state # "closed"
    /\ mon.sinkP # "Assert" /\ mon.cP # "Assert" /\ mon.closedP # "Assert"
    /\ (mon.monitoredWriter /\ Quiescent /\ usr.before.closed
          /\ ~usr.aborted /\ ~usr.destErrored) =>
         \/ mon.cP = "ok" /\ mon.state = "closed" /\ dst.state = "closed"
         \/ HeldByBackpressure /\ mon.cP = "pending"

\* close() was issued first, then pipeTo(): the close has succeeded.
C29_Witness ==
  /\ pc = "monitor" /\ mon.monitoredWriter /\ Quiescent
  /\ usr.before.closed /\ usr.before.written = 0
  /\ ~usr.aborted /\ ~usr.destErrored
  /\ mon.cP = "ok" /\ mon.state = "closed" /\ dst.state = "closed"

\* The writes the destination has been given and has not settled.
UnsettledDestinationWrites == {i \in DOMAIN dst.wP : dst.wP[i] = "pending"}

\* C30: in every state of a stream written to through the monitor, the
\* destination has at most one unsettled write, which is the write the
\* monitor has in flight; its queue holds at most one entry, and once the
\* destination has started that entry is the operation it has in flight.
C30_NoBufferingInDestination ==
  pc \in {"live", "monitor"} =>
    /\ Cardinality(UnsettledDestinationWrites) <= 1
    /\ UnsettledDestinationWrites # {} =>
         mon.op = "write" /\ UnsettledDestinationWrites = {mon.chunk}
    /\ Len(dst.queue) <= 1
    /\ (dst.queue # <<>> /\ dst.started) => dst.op # "none"

\* The monitor's own queue holds several chunks while the destination
\* holds the one in flight, blocked by backpressure.
C30_Witness ==
  /\ pc = "live" /\ Len(mon.queue) > 1 /\ mon.op = "write"
  /\ Len(dst.queue) = 1 /\ dst.op = "write" /\ ts.blocked
  /\ UnsettledDestinationWrites = {mon.chunk}

\* The times a method of the Transformer has been invoked, and the places
\* in the order of invocations.
Times(method) == Cardinality({i \in DOMAIN events : events[i] = method})
Places(method) == {i \in DOMAIN events : events[i] = method}

Outside(s) == <<s.cfg, s.pc, s.mon, s.sig, s.ad, s.usr, s.events>>

ReasonsHeld ==
  {mon.err, dst.err, rd.err, mon.closedP, dst.closedP, mon.cP, dst.cP,
   mon.aP, dst.aP, mon.sinkP, ts.wP, ts.cP, ts.flushErr, sig.reason,
   usr.closeSawReason, usr.listenerSawReason}
    \cup {mon.wP[i] : i \in DOMAIN mon.wP}
    \cup {dst.wP[i] : i \in DOMAIN dst.wP}

\* C33: whenever the adapter's transform() or flush() can be invoked, on a
\* constructed stream, the controller recorded at start() and the
\* augmented controller are in place; no stream, promise or signal ever
\* holds the error of a failed assertion; and every write the transform
\* stream has completed was given to the Transformer's transform().
C33_AdapterAssertionsHold ==
  /\ pc = "live" => AdapterAssertions(State)
  /\ pc \in {"live", "failed"} =>
       /\ "Assert" \notin ReasonsHeld
       /\ ad.hasTransform =>
            Cardinality({i \in DOMAIN dst.wP : dst.wP[i] = "ok"})
              <= Times("transform")

\* transform() and flush() have both been invoked through the adapter.
C33_Witness ==
  /\ pc = "live" /\ ad.hasTransform /\ AdapterAssertions(State)
  /\ Times("transform") = MaxWrites /\ Times("flush") = 1
  /\ dst.state = "closed"

\* C34: a monitor that is not bound to a destination has no sink callback
\* running and has given its destination nothing, whatever was written,
\* closed or aborted before pipeTo(); and no callback of its sink ever
\* fails the assertion that the destination's writer exists.
C34_NoSinkCallbackWhileUnbound ==
  pc = "monitor" =>
    /\ ~mon.monitoredWriter =>
         /\ mon.op = "none" /\ ~mon.started /\ mon.sinkP = "none"
         /\ dst.queue = <<>> /\ dst.op = "none" /\ ts.aborts = 0
    /\ mon.op # "none" => mon.monitoredWriter
    /\ "Assert" \notin {mon.err, mon.closedP, mon.cP, mon.aP, mon.sinkP}
    /\ \A i \in DOMAIN mon.wP : mon.wP[i] # "Assert"

\* A chunk written before pipeTo() is in the sink's write() after it.
C34_Witness ==
  /\ pc = "monitor" /\ usr.before.written > 0 /\ mon.monitoredWriter
  /\ mon.op = "write" /\ dst.wP[mon.chunk] = "pending"

\* pipeTo() has bound the monitor after it had failed on a locked
\* destination: a monitor that is bound lets no later call succeed.
BoundAfterFailure ==
  /\ pc = "monitor" /\ mon.monitoredWriter
  /\ usr.pipeCalls >= 2 /\ usr.pipeThrew = "none"

\* C35: a call of pipeTo() that throws for a locked destination changes
\* nothing of the monitor, the destination or what the callers hold, and
\* the monitor stays unbound and unstarted; a call that follows it throws
\* for a locked destination again or binds the monitor and returns the
\* destination writer's closed promise; and on a monitor bound that way,
\* not aborted and with a destination that has not failed, the chunks
\* written arrive in order, all of them once the consumer waits for more,
\* and everything issued before the binding settles as for any binding.
C35_FailedPipeToLeavesMonitorUsable ==
  /\ [](/\ (pc = "monitor" /\ usr.pipeThrew = "Locked") =>
            /\ ~mon.monitoredWriter /\ mon.dest = "none" /\ ~mon.started
            /\ usr.pipeP = "none" /\ mon.op = "none"
            /\ dst.queue = <<>> /\ Delivered = <<>>
       /\ (BoundAfterFailure /\ ~usr.aborted /\ ~usr.destErrored) =>
            /\ mon.dest = "A" /\ usr.pipeP = "closed"
            /\ IsPrefix(Delivered, ChunksWritten)
            /\ (Quiescent /\ rd.reqs > 0) =>
                 /\ rd.out = ChunksWritten
                 /\ SettledWhatWasIssuedBefore
            /\ (Quiescent /\ usr.closed /\ rd.lastRead = "done") =>
                 /\ rd.out = ChunksWritten
                 /\ dst.state = "closed" /\ mon.closedP = "ok")
  /\ [][/\ (usr'.pipeCalls = usr.pipeCalls + 1 /\ usr'.pipeThrew = "Locked") =>
            /\ UNCHANGED <<cfg, pc, mon, dst, ts, rd, sig, ad, events>>
            /\ [usr' EXCEPT !.locks = {}]
                 = [usr EXCEPT !.locks = {},
                               !.pipeCalls = @ + 1, !.pipeThrew = "Locked"]
        /\ (usr'.pipeCalls = usr.pipeCalls + 1 /\ usr.pipeThrew = "Locked") =>
            \/ usr'.pipeThrew = "Locked"
            \/ /\ mon'.monitoredWriter /\ mon'.dest = "A"
               /\ usr'.pipeThrew = "none" /\ usr'.pipeP = "closed"]_vars

\* pipeTo() failed on a locked destination after two chunks were written,
\* then bound the monitor; both chunks arrived in order.
C35_Witness ==
  /\ BoundAfterFailure /\ "B" \in usr.locks
  /\ usr.before.written = MaxWrites
  /\ rd.out = ChunksWritten /\ Quiescent

\* C36: in the order of the Transformer's invocations, no start(),
\* transform() or flush() comes after close(), whatever the producer and
\* the consumer do.
C36_NothingInvokedAfterClose ==
  \A c \in Places("close") :
    \A x \in Places("start") \cup Places("transform") \cup Places("flush") :
      x < c

\* close() was invoked for an abort, and the producer and the consumer
\* went on: a chunk written and a close() and cancel() issued afterwards.
C36_Witness ==
  /\ pc = "live" /\ Times("close") = 1 /\ Times("transform") = 1
  /\ sig.aborted /\ usr.written = MaxWrites /\ usr.closed
  /\ usr.cancelled /\ Quiescent

\* The stream has closed cleanly: flush() has succeeded, close() has been
\* called, the transform stream's writable side has closed and with it the
\* background pipe promise has resolved.
ClosedAndDelivered ==
  /\ pc = "live" /\ ts.flush = "done" /\ ts.cP = "ok" /\ ad.closeCalled
  /\ dst.state = "closed" /\ dst.closedP = "ok"

\* C37: a stream that has closed cleanly has called close() once, with a
\* signal that is not aborted; every step from there on (abort() by the
\* producer, cancel() by the consumer, reads, and the settling of what is
\* pending) leaves it closed cleanly, the signal untouched and no further
\* method of the Transformer invoked; and a further close() or abort() by
\* the producer changes nothing but the promise it returns.
C37_ClosedAndDeliveredIsTerminal ==
  /\ [](ClosedAndDelivered =>
         /\ ~sig.aborted /\ ~sig.catchDone
         /\ usr.closeCount = 1 /\ ~usr.closeSawAborted
         /\ usr.listenerCount = 0
         /\ [WritableStreamDefaultWriterClose(State, "mon")
               EXCEPT !.mon.cP = mon.cP] = State
         /\ [WritableStreamAbort(State, "mon", "Ra")
               EXCEPT !.mon.aP = mon.aP, !.mon.pa = mon.pa,
                      !.mon.paWas = mon.paWas,
                      !.mon.paReason = mon.paReason,
                      !.mon.state = mon.state, !.mon.err = mon.err] = State)
  /\ [][ClosedAndDelivered =>
         /\ ClosedAndDelivered'
         /\ UNCHANGED <<sig, ad, events>>
         /\ usr'.closeCount = usr.closeCount]_vars

\* The stream closed cleanly although the producer called abort() after
\* its close() and the consumer cancelled once the chunks were delivered.
C37_Witness ==
  /\ ClosedAndDelivered /\ Quiescent
  /\ mon.state = "closed" /\ rd.state = "closed"
  /\ usr.aborted /\ mon.aP = "ok" /\ ~usr.endedFirst
  /\ usr.cancelled /\ usr.cancelP = "ok"

\* A method of the Transformer has called controller.terminate().
Terminated ==
  \/ cfg.start = "terminate" /\ Places("start") # {}
  \/ cfg.transform = "terminate" /\ Places("transform") # {}

\* C38: once start() or transform() has called controller.terminate(), the
\* readable side is closed or closing and never errored, and close() has
\* been invoked at most once; and when nothing is pending any more, the
\* transform stream's writable side and the stream's writable side are
\* errored, the background pipe has rejected, the signal is aborted with
\* the error of terminate() and its listener has run once, and close() has
\* been invoked exactly once, seeing the signal aborted.
C38_TerminateShutsDown ==
  (pc = "live" /\ Terminated) =>
    /\ rd.state # "errored"
    /\ rd.state = "closed" \/ rd.closeReq
    /\ dst.state \in {"erroring", "errored"} /\ dst.err = "Terminated"
    /\ usr.closeCount <= 1
    /\ Quiescent =>
         /\ dst.state = "errored" /\ dst.closedP = "Terminated"
         /\ mon.state = "errored"
         /\ sig.aborted /\ sig.reason = "Terminated"
         /\ cfg.listen => usr.listenerCount = 1
         /\ usr.closeCount = 1 /\ usr.closeSawAborted
         /\ usr.closeSawReason = "Terminated"
         /\ Times("close") = 1

\* transform() called terminate() with a chunk still to be read: the
\* consumer read it and then the end, and the writable side is errored.
C38_Witness ==
  /\ pc = "live" /\ cfg.transform = "terminate" /\ Times("transform") = 1
  /\ Quiescent /\ rd.state = "closed" /\ rd.lastRead = "done"
  /\ rd.out = <<StartChunk>>
  /\ mon.state = "errored" /\ sig.aborted /\ usr.closeCount = 1

====
